---- MODULE Spec2Model ----
(***************************************************************************)
(* A model of the shitbrix play field: the occupancy store (Pit), the      *)
(* timed occupant state machine (Physical, Block, Garbage), the match      *)
(* detector (MatchBuilder), the tick classifier (Logic) and the director   *)
(* (BlockDirector).                                                        *)
(*                                                                         *)
(* The specifications share the variables:                                 *)
(*   SpecPit    arbitrary sequences of the Pit's own operations            *)
(*   SpecMatch  MatchBuilder ignitions over small hand-built pits          *)
(*   Spec       the game: Pit::update + BlockDirector::update per tick,    *)
(*              and the player's swap command                              *)
(*   SpecTwin   two simulations fed the same commands                      *)
(*   SpecCursor the game with the cursor moving                            *)
(*   SpecArrive one occupant counting down to its arrival                  *)
(*   SpecRaise  raise, recovery and scroll of the Pit                      *)
(*   SpecAssign one Pit assigned to another                                *)
(*   SpecRound  the phases of a game round over two fields                 *)
(***************************************************************************)
EXTENDS Integers, Sequences, FiniteSets, TLC

VARIABLES
    m_contents,     \* Pit::m_contents: sequence of occupant ids (vector order)
    phys,           \* the occupants themselves: id -> record of fields
    m_content_map,  \* Pit::m_content_map: cell <<r,c>> -> occupant id
    m_peak,         \* Pit::m_peak
    m_scroll,       \* Pit::m_scroll
    m_chain,        \* Pit::m_chain
    m_recovery,     \* Pit::m_recovery
    m_want_raise,   \* Pit::m_want_raise
    m_raise,        \* Pit::m_raise
    m_panic,        \* Pit::m_panic
    m_cursor,       \* Pit::m_cursor: [rc, time]
    next_id,        \* the next fresh occupant identity (allocation)
    err,            \* an exception escaped a Pit operation (LogicException / enforce)
    d_bottom,       \* BlockDirector: lowest row previews were spawned for
    d_panic,        \* BlockDirector::is_panic()
    d_over,         \* BlockDirector::over()
    color_calls,    \* IColorSupplier: number of colors drawn so far
    events,         \* the events fired to the IGameEvent sink by the last step
    mb_result,      \* MatchBuilder::m_result (insertion order kept)
    mb_chaining,    \* MatchBuilder::m_chaining
    mb_hots,        \* the blocks ignited in this evaluation round
    scen,           \* the scenario the run was set up from
    last_op,        \* the operation the last step performed, with its arguments
    twin,           \* a second simulation that is fed the same commands
    screen          \* GameScreen: game_phase with its fields, m_game_time

pitVars == <<m_contents, phys, m_content_map, m_peak, m_scroll, m_chain,
             m_recovery, m_want_raise, m_raise, m_panic, m_cursor, next_id, err>>
dirVars == <<d_bottom, d_panic, d_over, color_calls, events>>
mbVars  == <<mb_result, mb_chaining, mb_hots>>
vars    == <<pitVars, dirVars, mbVars, scen, last_op, twin, screen>>

\* the field is run without a GameScreen
NoScreen == [game_phase |-> "none"]

\* there is no second simulation
NoTwin == [present |-> FALSE]

----------------------------------------------------------------------------
(* Program constants (globals.hpp)                                         *)

PIT_COLS == 6
PIT_ROWS == 10
ROW_HEIGHT == 200
FALL_SPEED == 35
SCROLL_SPEED == 1
RAISE_SPEED == 15
SWAP_TIME == 6
BREAK_TIME == 30
DISSOLVE_TIME == 30
LAND_TIME == 20
RECOVERY_TIME == 50
PANIC_TIME == 90

\* Block::Color: the placeholder color and the six palette colors
FAKE == 0
Palette == 1..6

\* Physical::State / Block::State
States == {"PREVIEW", "REST", "SWAP_LEFT", "SWAP_RIGHT", "FALL", "LAND", "BREAK", "DEAD"}

\* Physical tags
TAG_FALL == "TAG_FALL"
TAG_HOT == "TAG_HOT"
TAG_TOUCH == "TAG_TOUCH"

----------------------------------------------------------------------------
(* Bounds of the model                                                     *)

MaxOccupants == 2   \* SpecPit: occupants ever spawned
MaxRow == 0         \* SpecPit: the lowest row an occupant is made to fall to
MaxTicks == 100     \* Spec: ticks of one run
MaxIgnite == 2      \* SpecMatch: ignitions of one evaluation round

----------------------------------------------------------------------------
(* Helpers                                                                 *)

Min(S) == CHOOSE x \in S : \A y \in S : x <= y
Max(S) == CHOOSE x \in S : \A y \in S : x >= y
Range(s) == {s[i] : i \in 1..Len(s)}
SeqFilter(s, keep(_)) == SelectSeq(s, keep)
Restrict(f, S) == [x \in S |-> f[x]]

\* ceil and floor of a/b for b > 0, as std::ceil / std::floor of the float quotient
CeilDiv(a, b) == -((-a) \div b)
FloorDiv(a, b) == a \div b

\* the cells an occupant anchored at rc with the given extent covers, in the
\* row-major order of the loops of fill_area and clear_area
FootprintSeq(rc, rows, columns) ==
    [i \in 1..(rows * columns) |->
        <<rc[1] + ((i - 1) \div columns), rc[2] + ((i - 1) % columns)>>]
Footprint(o) == Range(FootprintSeq(o.rc, o.rows, o.columns))

----------------------------------------------------------------------------
(* Physical, Block, Garbage (state.cpp)                                    *)

\* Block::Block / Physical::Physical
NewBlock(col, rc, state) ==
    [kind |-> "Block", rc |-> rc, state |-> state, time |-> 1, speed |-> 1,
     tag |-> {}, col |-> col, chaining |-> FALSE,
     columns |-> 1, rows |-> 1, loot |-> <<>>]

\* Garbage::Garbage / Physical::Physical
NewGarbage(rc, columns, rows, loot) ==
    [kind |-> "Garbage", rc |-> rc, state |-> "REST", time |-> 1, speed |-> 1,
     tag |-> {}, col |-> FAKE, chaining |-> FALSE,
     columns |-> columns, rows |-> rows, loot |-> loot]

\* Physical::is_arriving without the lower bound
is_arriving_ever_after(o) == o.time <= 0

\* Physical::is_arriving one tick after the time has run out
is_arriving_late(o) == o.time < 0 /\ o.time >= -o.speed

\* Physical::is_arriving
is_arriving(o) == o.time <= 0 /\ o.time > -o.speed

\* Physical::is_fallible with the test of the tag inverted
is_fallible_tagged(o) == o.state \in {"REST", "LAND"} /\ TAG_FALL \in o.tag

\* Physical::is_fallible
is_fallible(o) == o.state \in {"REST", "LAND"} /\ TAG_FALL \notin o.tag

\* Physical::set_state (the enforce()s are the caller's obligations)
set_state(o, state, time, speed) ==
    [o EXCEPT !.state = state, !.time = time, !.speed = speed]

\* Physical::continue_state that grants no bonus
continue_state_none(o, time_bonus) == o

\* Physical::continue_state
continue_state(o, time_bonus) == [o EXCEPT !.time = o.time + time_bonus]

\* Block::is_swappable that admits only blocks that could match
Block_is_swappable_at_rest(o) == o.state \in {"REST", "LAND"}

\* Block::is_swappable with only the dead blocks excluded
Block_is_swappable_unless_dead(o) == o.state # "DEAD"

\* Block::is_swappable
Block_is_swappable(o) ==
    o.state \in {"REST", "FALL", "LAND", "SWAP_LEFT", "SWAP_RIGHT"}

\* Block::is_matchable that takes a block in any state but DEAD
Block_is_matchable_any(o) == o.state # "DEAD"

\* Block::is_matchable
Block_is_matchable(o) == o.state \in {"REST", "LAND"}

\* Block::update_impl that lets a breaking block die one tick late
Block_update_impl_late(o) ==
    IF o.kind = "Block" /\ o.state = "BREAK" /\ o.time < 0
    THEN set_state(o, "DEAD", 1, 1)
    ELSE o

\* Block::update_impl that lets a breaking block die two ticks late
Block_update_impl_overdue(o) ==
    IF o.kind = "Block" /\ o.state = "BREAK" /\ o.time < -1
    THEN set_state(o, "DEAD", 1, 1)
    ELSE o

\* Block::update_impl without the end of the break
Block_update_impl_never(o) == o

\* Block::update_impl
Block_update_impl(o) ==
    IF o.kind = "Block" /\ o.state = "BREAK" /\ is_arriving(o)
    THEN set_state(o, "DEAD", 1, 1)
    ELSE o

\* Physical::update that counts every tick twice
Physical_update_twice(o) ==
    LET o1 == [o EXCEPT !.time = o.time - 2 * o.speed]
        o2 == Block_update_impl(o1)
    IN  IF o2.state = "LAND" /\ is_arriving(o2)
        THEN set_state(o2, "REST", 1, 1)
        ELSE o2

\* Physical::update
Physical_update(o) ==
    LET o1 == [o EXCEPT !.time = o.time - o.speed]
        o2 == Block_update_impl(o1)
    IN  IF o2.state = "LAND" /\ is_arriving(o2)
        THEN set_state(o2, "REST", 1, 1)
        ELSE o2

\* the enforce()s of Garbage::shrink, on the garbage before and after
Garbage_shrink_enforced(o, shrunk) ==
    o.rows > 0 /\ Len(shrunk.loot) = shrunk.columns * shrunk.rows

\* Garbage::shrink that takes nothing off
Garbage_shrink_none(o) == o

\* Garbage::shrink with the loot left alone
Garbage_shrink_keep_loot(o) == [o EXCEPT !.rows = o.rows - 1]

\* Garbage::shrink: the first row of loot is consumed and a row is lost
Garbage_shrink(o) ==
    [o EXCEPT !.loot = SubSeq(o.loot, o.columns + 1, Len(o.loot)),
              !.rows = o.rows - 1]

----------------------------------------------------------------------------
(* Pit (state.cpp).  The operators work on a record of the Pit's fields so *)
(* that a handler's calls compose; the actions below unpack the result.    *)

PitState ==
    [m_contents |-> m_contents, phys |-> phys, m_content_map |-> m_content_map,
     m_peak |-> m_peak, m_scroll |-> m_scroll, m_chain |-> m_chain,
     m_recovery |-> m_recovery, m_want_raise |-> m_want_raise, m_raise |-> m_raise,
     m_panic |-> m_panic, m_cursor |-> m_cursor,
     next_id |-> next_id, err |-> err]

\* Pit::Pit
NewPit ==
    [m_contents |-> <<>>, phys |-> <<>>, m_content_map |-> <<>>,
     m_peak |-> 1, m_scroll |-> (1 - PIT_ROWS) * ROW_HEIGHT, m_chain |-> 0,
     m_recovery |-> 0, m_want_raise |-> FALSE, m_raise |-> FALSE, m_panic |-> PANIC_TIME,
     m_cursor |-> [rc |-> <<-(PIT_ROWS \div 2), (PIT_COLS \div 2) - 1>>, time |-> 0],
     next_id |-> 1, err |-> FALSE]

\* Pit::at (NULL is 0: ids start at 1)
NULL == 0
Pit_at(p, rc) == IF rc \in DOMAIN p.m_content_map THEN p.m_content_map[rc] ELSE NULL

\* Pit::block_at, Pit::garbage_at (dynamic_cast of at())
Pit_block_at(p, rc) ==
    LET id == Pit_at(p, rc)
    IN  IF id # NULL /\ id \in DOMAIN p.phys /\ p.phys[id].kind = "Block" THEN id ELSE NULL
Pit_garbage_at(p, rc) ==
    LET id == Pit_at(p, rc)
    IN  IF id # NULL /\ id \in DOMAIN p.phys /\ p.phys[id].kind = "Garbage" THEN id ELSE NULL

\* Pit::top, Pit::bottom
Pit_top(p) == CeilDiv(p.m_scroll, ROW_HEIGHT)
Pit_bottom(p) == FloorDiv(p.m_scroll, ROW_HEIGHT) + PIT_ROWS - 1

\* Pit::is_full with the top row itself counted
Pit_is_full_at_top(p) ==
    \E i \in 1..Len(p.m_contents) :
        LET o == p.phys[p.m_contents[i]]
        IN  o.state = "REST" /\ o.rc[1] <= Pit_top(p)

\* Pit::is_full that finds every pit full
Pit_is_full_always(p) == TRUE

\* Pit::is_full
Pit_is_full(p) ==
    \E i \in 1..Len(p.m_contents) :
        LET o == p.phys[p.m_contents[i]]
        IN  o.state = "REST" /\ o.rc[1] < Pit_top(p)

\* Pit::refresh_peak that drops the peak to the bottom row at once
Pit_refresh_peak_bottom(p) == [p EXCEPT !.m_peak = Pit_bottom(p)]

\* Pit::refresh_peak that leaves the peak where it is
Pit_refresh_peak_none(p) == p

\* Pit::refresh_peak: the peak moves down while its row is empty
RECURSIVE RefreshPeakFrom(_, _)
RefreshPeakFrom(p, peak) ==
    IF peak < Pit_bottom(p)
    THEN IF \E c \in 0..(PIT_COLS - 1) : Pit_at(p, <<peak, c>>) # NULL
         THEN peak
         ELSE RefreshPeakFrom(p, peak + 1)
    ELSE peak
Pit_refresh_peak(p) == [p EXCEPT !.m_peak = RefreshPeakFrom(p, p.m_peak)]

\* Pit::fill_area: emplace cell by cell, throwing at the first blocked cell
\* (the cells emplaced before it stay in the map)
Pit_fill_area(p, id, o) ==
    LET cells == FootprintSeq(o.rc, o.rows, o.columns)
        bad == {i \in 1..Len(cells) : cells[i] \in DOMAIN p.m_content_map}
        n == IF bad = {} THEN Len(cells) ELSE Min(bad) - 1
        added == {cells[i] : i \in 1..n}
    IN  [p EXCEPT !.m_content_map =
                      [c \in (DOMAIN p.m_content_map) \cup added |->
                          IF c \in DOMAIN p.m_content_map THEN p.m_content_map[c] ELSE id],
                  !.err = (bad # {})]

\* Pit::clear_area
Pit_clear_area(p, o) ==
    [p EXCEPT !.m_content_map =
        Restrict(p.m_content_map, (DOMAIN p.m_content_map) \ Footprint(o))]

\* m_contents.push_back of a freshly made occupant
PushBack(p, id, o) ==
    [p EXCEPT !.m_contents = Append(p.m_contents, id),
              !.phys = (id :> o) @@ p.phys,
              !.next_id = id + 1]

\* Pit::spawn_block.  The result is the Pit; the new block is p.next_id.
Pit_spawn_block(p, color, rc, state) ==
    IF ~(rc[2] >= 0 /\ rc[2] < PIT_COLS)
    THEN [p EXCEPT !.err = TRUE]
    ELSE LET id == p.next_id
             o == NewBlock(color, rc, state)
             p1 == Pit_fill_area(p, id, o)
         IN  IF p1.err THEN p1
             ELSE LET p2 == PushBack(p1, id, o)
                  IN  [p2 EXCEPT !.m_peak = IF rc[1] < p2.m_peak THEN rc[1] ELSE p2.m_peak]

\* Pit::spawn_garbage, with the loot the color supplier delivered
Pit_spawn_garbage(p, rc, width, height, loot) ==
    IF ~(rc[2] >= 0 /\ rc[2] + width <= PIT_COLS /\ width > 0 /\ height > 0)
    THEN [p EXCEPT !.err = TRUE]
    ELSE LET id == p.next_id
             o == NewGarbage(rc, width, height, loot)
             p1 == Pit_fill_area(p, id, o)
         IN  IF p1.err THEN p1
             ELSE LET p2 == PushBack(p1, id, o)
                  IN  [p2 EXCEPT !.m_peak = IF rc[1] < p2.m_peak THEN rc[1] ELSE p2.m_peak]

\* Pit::can_fall that finds a support everywhere
Pit_can_fall_never(p, id) == FALSE

\* Pit::can_fall
Pit_can_fall(p, id) ==
    LET o == p.phys[id]
    IN  \A c \in o.rc[2]..(o.rc[2] + o.columns - 1) :
            Pit_at(p, <<o.rc[1] + o.rows, c>>) = NULL

\* Pit::fall_block that writes over whatever holds the cell below
Pit_fall_block_over(p, id) ==
    LET o == p.phys[id]
        to == <<o.rc[1] + 1, o.rc[2]>>
    IN  [p EXCEPT !.m_content_map =
                      (to :> id) @@
                      Restrict(p.m_content_map, (DOMAIN p.m_content_map) \ {o.rc}),
                  !.phys[id].rc = to]

\* Pit::fall_block
Pit_fall_block(p, id) ==
    LET o == p.phys[id]
        to == <<o.rc[1] + 1, o.rc[2]>>
    IN  IF Pit_at(p, to) # NULL
        THEN [p EXCEPT !.err = TRUE]
        ELSE [p EXCEPT !.m_content_map =
                           (to :> id) @@
                           Restrict(p.m_content_map, (DOMAIN p.m_content_map) \ {o.rc}),
                       !.phys[id].rc = to]

\* Pit::fall_garbage that moves the cells and forgets the coordinate
Pit_fall_garbage_cells(p, id) ==
    LET o == p.phys[id]
        to == <<o.rc[1] + 1, o.rc[2]>>
    IN  Pit_fill_area(Pit_clear_area(p, o), id, [o EXCEPT !.rc = to])

\* Pit::fall_garbage
Pit_fall_garbage(p, id) ==
    LET o == p.phys[id]
        to == <<o.rc[1] + 1, o.rc[2]>>
        p1 == Pit_clear_area(p, o)
        p2 == [p1 EXCEPT !.phys[id].rc = to]
    IN  Pit_fill_area(p2, id, p2.phys[id])

\* Pit::fall
Pit_fall(p, id) ==
    LET p1 == IF p.phys[id].kind = "Block" THEN Pit_fall_block(p, id)
              ELSE Pit_fall_garbage(p, id)
    IN  IF p1.err THEN p1 ELSE Pit_refresh_peak(p1)

\* Pit::swap that throws only after it has moved the blocks
Pit_swap_late_throw(p, left, right) ==
    [p EXCEPT !.phys = [p.phys EXCEPT
                           ![left] = [p.phys[left] EXCEPT
                                         !.rc = p.phys[right].rc,
                                         !.chaining = p.phys[right].chaining],
                           ![right] = [p.phys[right] EXCEPT
                                         !.rc = p.phys[left].rc,
                                         !.chaining = p.phys[left].chaining]],
              !.err = Pit_at(p, p.phys[left].rc) # left \/ Pit_at(p, p.phys[right].rc) # right]

\* Pit::swap that leaves both blocks where they are
Pit_swap_none(p, left, right) == p

\* Pit::swap without the exchange of the chaining flags
Pit_swap_keep_chaining(p, left, right) ==
    LET lrc == p.phys[left].rc
        rrc == p.phys[right].rc
    IN  IF Pit_at(p, lrc) # left \/ Pit_at(p, rrc) # right
        THEN [p EXCEPT !.err = TRUE]
        ELSE [p EXCEPT !.phys = [p.phys EXCEPT ![left] = [p.phys[left] EXCEPT !.rc = rrc],
                                               ![right] = [p.phys[right] EXCEPT !.rc = lrc]],
                       !.m_content_map = [p.m_content_map EXCEPT
                                             ![lrc] = p.m_content_map[rrc],
                                             ![rrc] = p.m_content_map[lrc]]]

\* Pit::swap
Pit_swap(p, left, right) ==
    LET lrc == p.phys[left].rc
        rrc == p.phys[right].rc
    IN  IF Pit_at(p, lrc) # left \/ Pit_at(p, rrc) # right
        THEN [p EXCEPT !.err = TRUE]
        ELSE [p EXCEPT !.phys = [p.phys EXCEPT
                                    ![left] = [p.phys[left] EXCEPT
                                                  !.rc = rrc,
                                                  !.chaining = p.phys[right].chaining],
                                    ![right] = [p.phys[right] EXCEPT
                                                  !.rc = lrc,
                                                  !.chaining = p.phys[left].chaining]],
                       !.m_content_map = [p.m_content_map EXCEPT
                                             ![lrc] = p.m_content_map[rrc],
                                             ![rrc] = p.m_content_map[lrc]]]

\* erase occupants from m_contents and free them
EraseIds(p, gone) ==
    [p EXCEPT !.m_contents = SelectSeq(p.m_contents, LAMBDA id : id \notin gone),
              !.phys = Restrict(p.phys, (DOMAIN p.phys) \ gone)]

\* Pit::remove_dead that leaves the dead where they are
Pit_remove_dead_none(p) == p

\* Pit::remove_dead
Pit_remove_dead(p) ==
    LET dead == {id \in Range(p.m_contents) : p.phys[id].state = "DEAD"}
        cells == UNION {Footprint(p.phys[id]) : id \in dead}
        p1 == [p EXCEPT !.m_content_map =
                  Restrict(p.m_content_map, (DOMAIN p.m_content_map) \ cells)]
        p2 == EraseIds(p1, dead)
    IN  IF dead = {} THEN p ELSE Pit_refresh_peak(p2)

\* Pit::shrink with the row to erase computed from the anchor alone
Pit_shrink_top_row(p, id) ==
    LET o == p.phys[id]
        low == o.rc[1]
        row == {<<low, c>> : c \in o.rc[2]..(o.rc[2] + o.columns - 1)}
        p1 == [p EXCEPT !.m_content_map =
                  Restrict(p.m_content_map, (DOMAIN p.m_content_map) \ row),
                        !.phys[id] = Garbage_shrink(o),
                        !.err = ~Garbage_shrink_enforced(o, Garbage_shrink(o))]
    IN  IF p1.err THEN p1
        ELSE IF p1.phys[id].rows <= 0
        THEN Pit_refresh_peak(
                 EraseIds(p1, {g \in Range(p1.m_contents) : p1.phys[g].rows <= 0}))
        ELSE p1

\* Pit::shrink.  The garbage survives iff it is still in phys afterwards.
Pit_shrink(p, id) ==
    LET o == p.phys[id]
        low == o.rc[1] + o.rows - 1
        row == {<<low, c>> : c \in o.rc[2]..(o.rc[2] + o.columns - 1)}
        p1 == [p EXCEPT !.m_content_map =
                  Restrict(p.m_content_map, (DOMAIN p.m_content_map) \ row),
                        !.phys[id] = Garbage_shrink(o),
                        !.err = ~Garbage_shrink_enforced(o, Garbage_shrink(o))]
    IN  IF p1.err THEN p1
        ELSE IF p1.phys[id].rows <= 0
        THEN Pit_refresh_peak(
                 EraseIds(p1, {g \in Range(p1.m_contents) : p1.phys[g].rows <= 0}))
        ELSE p1

\* Pit::untag_all that clears nothing
Pit_untag_all_none(p) == p

\* Pit::untag_all
Pit_untag_all(p) ==
    [p EXCEPT !.phys = [id \in DOMAIN p.phys |-> [p.phys[id] EXCEPT !.tag = {}]]]

\* Pit::update (Physical::update enforces that no occupant is dead)
Pit_update(p) ==
    LET p1 == [p EXCEPT !.phys = [id \in DOMAIN p.phys |-> Physical_update(p.phys[id])],
                        !.m_scroll = p.m_scroll + (IF p.m_raise THEN RAISE_SPEED
                                                   ELSE SCROLL_SPEED),
                        !.err = \E id \in DOMAIN p.phys : p.phys[id].state = "DEAD"]
        top == Pit_top(p1)
    IN  [p1 EXCEPT !.m_cursor = [rc |-> <<IF p.m_cursor.rc[1] < top THEN top
                                           ELSE p.m_cursor.rc[1],
                                          p.m_cursor.rc[2]>>,
                                 time |-> p.m_cursor.time + 1]]

\* the Pit's fields after a handler ran
SetPit(p) ==
    /\ m_contents' = p.m_contents
    /\ phys' = p.phys
    /\ m_content_map' = p.m_content_map
    /\ m_peak' = p.m_peak
    /\ m_scroll' = p.m_scroll
    /\ m_chain' = p.m_chain
    /\ m_recovery' = p.m_recovery
    /\ m_want_raise' = p.m_want_raise
    /\ m_raise' = p.m_raise
    /\ m_panic' = p.m_panic
    /\ m_cursor' = p.m_cursor
    /\ next_id' = p.next_id
    /\ err' = p.err

----------------------------------------------------------------------------
(* The color supplier (IColorSupplier): a pure function of the seed and    *)
(* the number of earlier calls.  The rows it deals are rainbow rows, each  *)
(* shifted by one against the row before.                                  *)

ColorAt(seed, n) == ((seed + n + (n \div PIT_COLS)) % 6) + 1
NextColors(seed, calls, count) == [i \in 1..count |-> ColorAt(seed, calls + i - 1)]

----------------------------------------------------------------------------
(* SpecPit: the Pit's operations in any order, on a freshly made Pit.      *)
(* An operation that throws sets err and the run ends there.               *)

PitInRows == {-1, 0}
PitInCols == {0, 1}
PitInColors == {1}
PitInWidth == {2}
PitInHeight == {1, 2}
PitInStates == {"DEAD", "BREAK"}

\* the director, the match builder and the harness before anything happened
DirStart ==
    /\ d_bottom = 0
    /\ d_panic = FALSE
    /\ d_over = FALSE
    /\ color_calls = 0
    /\ events = <<>>
MbStart ==
    /\ mb_result = <<>>
    /\ mb_chaining = FALSE
    /\ mb_hots = <<>>

StartPit(p) ==
    /\ m_contents = p.m_contents
    /\ phys = p.phys
    /\ m_content_map = p.m_content_map
    /\ m_peak = p.m_peak
    /\ m_scroll = p.m_scroll
    /\ m_chain = p.m_chain
    /\ m_recovery = p.m_recovery
    /\ m_want_raise = p.m_want_raise
    /\ m_raise = p.m_raise
    /\ m_panic = p.m_panic
    /\ m_cursor = p.m_cursor
    /\ next_id = p.next_id
    /\ err = p.err

InitPit ==
    /\ StartPit(NewPit)
    /\ DirStart
    /\ MbStart
    /\ scen = "pit"
    /\ screen = NoScreen
    /\ last_op = [op |-> "init"]
    /\ twin = NoTwin

\* Pit::spawn_block
SpawnBlock ==
    \E color \in PitInColors, r \in PitInRows, c \in PitInCols :
        /\ ~err
        /\ next_id <= MaxOccupants
        /\ SetPit(Pit_spawn_block(PitState, color, <<r, c>>, "REST"))
        /\ last_op' = [op |-> "spawn_block"]
        /\ UNCHANGED <<dirVars, mbVars, scen, screen, twin>>

\* Pit::spawn_garbage
SpawnGarbage ==
    \E r \in PitInRows, c \in PitInCols, w \in PitInWidth, h \in PitInHeight :
        /\ ~err
        /\ next_id <= MaxOccupants
        /\ SetPit(Pit_spawn_garbage(PitState, <<r, c>>, w, h,
                                    NextColors(0, color_calls, w * h)))
        /\ color_calls' = color_calls + w * h
        /\ last_op' = [op |-> "spawn_garbage"]
        /\ UNCHANGED <<d_bottom, d_panic, d_over, events, mbVars, scen, screen, twin>>

\* Pit::fall
Fall ==
    \E id \in DOMAIN phys :
        /\ ~err
        /\ phys[id].rc[1] + phys[id].rows - 1 < MaxRow
        /\ SetPit(Pit_fall(PitState, id))
        /\ last_op' = [op |-> "fall", id |-> id]
        /\ UNCHANGED <<dirVars, mbVars, scen, screen, twin>>

\* Pit::swap
Swap ==
    \E a \in DOMAIN phys, b \in DOMAIN phys :
        /\ ~err
        /\ phys[a].kind = "Block"
        /\ phys[b].kind = "Block"
        /\ SetPit(Pit_swap(PitState, a, b))
        /\ last_op' = [op |-> "swap"]
        /\ UNCHANGED <<dirVars, mbVars, scen, screen, twin>>

\* Pit::shrink
Shrink ==
    \E id \in DOMAIN phys :
        /\ ~err
        /\ phys[id].kind = "Garbage"
        /\ SetPit(Pit_shrink(PitState, id))
        /\ last_op' = [op |-> "shrink", id |-> id]
        /\ UNCHANGED <<dirVars, mbVars, scen, screen, twin>>

\* Pit::remove_dead
RemoveDead ==
    /\ ~err
    /\ SetPit(Pit_remove_dead(PitState))
    /\ last_op' = [op |-> "remove_dead"]
    /\ UNCHANGED <<dirVars, mbVars, scen, screen, twin>>

\* Physical::set_state, called on an occupant of the Pit
SetState ==
    \E id \in DOMAIN phys, st \in PitInStates :
        /\ ~err
        /\ phys[id].state # "DEAD"
        /\ st = "BREAK" => phys[id].kind = "Garbage" /\ phys[id].state # "BREAK"
        /\ SetPit([PitState EXCEPT !.phys[id] = set_state(@, st, 1, 1)])
        /\ last_op' = [op |-> "set_state"]
        /\ UNCHANGED <<dirVars, mbVars, scen, screen, twin>>

\* a Block that is not an occupant of this Pit
ForeignBlocks ==
    {[NewBlock(color, <<r, c>>, "REST") EXCEPT !.chaining = ch] :
        color \in PitInColors, r \in PitInRows, c \in PitInCols, ch \in BOOLEAN}

\* the Pit with the foreign Block f beside it, under the fresh identity fid
WithForeign(p, fid, f) == [p EXCEPT !.phys = (fid :> f) @@ p.phys]

\* Pit::swap, called with a Block of the Pit and a Block the Pit does not
\* know, as the left or as the right one.  The Pit's own occupants and the
\* foreign Block are what the call leaves of them.
SwapForeign ==
    \E a \in DOMAIN phys, f \in ForeignBlocks, foreign_left \in BOOLEAN :
        /\ ~err
        /\ phys[a].kind = "Block"
        /\ \E r \in {IF foreign_left
                     THEN Pit_swap(WithForeign(PitState, next_id, f), next_id, a)
                     ELSE Pit_swap(WithForeign(PitState, next_id, f), a, next_id)} :
               /\ SetPit([r EXCEPT !.phys = Restrict(r.phys, DOMAIN phys)])
               /\ last_op' = [op |-> "swap_foreign", own |-> a, foreign |-> f,
                              after |-> r.phys[next_id]]
        /\ UNCHANGED <<dirVars, mbVars, scen, screen, twin>>

NextPit ==
    \/ SpawnBlock
    \/ SpawnGarbage
    \/ Fall
    \/ Swap
    \/ SwapForeign
    \/ Shrink
    \/ RemoveDead
    \/ SetState

SpecPit == InitPit /\ [][NextPit]_vars

----------------------------------------------------------------------------
(* The index and the collection agree                                      *)

\* every cell of every stored occupant's footprint maps to that occupant
FootprintsIndexed ==
    \A id \in Range(m_contents) :
        \A cell \in Footprint(phys[id]) :
            cell \in DOMAIN m_content_map /\ m_content_map[cell] = id

\* no index entry refers to a cell outside the footprint of a stored occupant
NoOrphanedCells ==
    \A cell \in DOMAIN m_content_map :
        \E id \in Range(m_contents) :
            m_content_map[cell] = id /\ cell \in Footprint(phys[id])

\* no cell is claimed by two occupants
NoDoubleOccupancy ==
    \A a \in Range(m_contents), b \in Range(m_contents) :
        a # b => Footprint(phys[a]) \cap Footprint(phys[b]) = {}

\* the collection holds each occupant once, and exactly the live ones
ContentsAreThePhysicals ==
    /\ Range(m_contents) = DOMAIN phys
    /\ \A i \in 1..Len(m_contents), j \in 1..Len(m_contents) :
           m_contents[i] = m_contents[j] => i = j

IndexAgrees ==
    /\ ContentsAreThePhysicals
    /\ FootprintsIndexed
    /\ NoOrphanedCells
    /\ NoDoubleOccupancy

\* C1: after any sequence of Pit operations that raised no invariant error,
\* the coordinate index and the occupant collection agree exactly: every cell
\* of every stored footprint maps to its occupant, no entry lies outside a
\* stored footprint, and no cell is claimed twice.
C1_IndexAgrees == ~err => IndexAgrees

\* a 2-row Garbage was shrunk to one row next to another occupant
C1_Witness ==
    /\ ~err
    /\ last_op.op = "shrink"
    /\ Len(m_contents) = 2
    /\ \E id \in DOMAIN phys : phys[id].kind = "Garbage" /\ phys[id].rows = 1

----------------------------------------------------------------------------
(* MatchBuilder (logic.hpp; ignite, match_at and insert after the          *)
(* specification of the match detector).  A MatchBuilder is the record     *)
(* [result, chaining]; result keeps the blocks in insertion order.         *)

NewMatchBuilder == [result |-> <<>>, chaining |-> FALSE]

\* MatchBuilder::PhysEqual with only the row compared
PhysEqual_row_only(lhs, rhs) == lhs.rc[1] = rhs.rc[1]

\* MatchBuilder::PhysEqual
PhysEqual(lhs, rhs) == lhs.rc = rhs.rc

\* emplace into a container that keeps equal elements
BlockSet_emplace_multi(p, result, id) == Append(result, id)

\* MatchBuilder::BlockSet: emplace into the unordered_set keyed by PhysEqual
BlockSet_emplace(p, result, id) ==
    IF \E i \in 1..Len(result) : PhysEqual(p.phys[result[i]], p.phys[id])
    THEN result
    ELSE Append(result, id)

\* MatchBuilder::combo
MatchBuilder_combo(mb) == Len(mb.result)

\* MatchBuilder::chaining stuck at its initial value
MatchBuilder_chaining_never(mb) == FALSE

\* MatchBuilder::chaining
MatchBuilder_chaining(mb) == mb.chaining

\* MatchBuilder::match_at
MatchBuilder_match_at(p, rc, color) ==
    LET id == Pit_block_at(p, rc)
    IN  /\ id # NULL
        /\ Block_is_matchable(p.phys[id])
        /\ p.phys[id].col = color

\* MatchBuilder::insert
MatchBuilder_insert(p, mb, rc) ==
    LET id == Pit_block_at(p, rc)
    IN  [result |-> BlockSet_emplace(p, mb.result, id),
         chaining |-> mb.chaining \/ p.phys[id].chaining]

RECURSIVE InsertAll(_, _, _)
InsertAll(p, mb, cells) ==
    IF cells = <<>> THEN mb
    ELSE InsertAll(p, MatchBuilder_insert(p, mb, Head(cells)), Tail(cells))

\* the number of cells matching color in a straight line from rc (exclusive)
RECURSIVE ScanLength(_, _, _, _, _)
ScanLength(p, rc, dr, dc, color) ==
    LET next == <<rc[1] + dr, rc[2] + dc>>
    IN  IF MatchBuilder_match_at(p, next, color)
        THEN 1 + ScanLength(p, next, dr, dc, color)
        ELSE 0

\* MatchBuilder::ignite
MatchBuilder_ignite(p, mb, id) ==
    LET b == p.phys[id]
        rc == b.rc
        left == ScanLength(p, rc, 0, -1, b.col)
        right == ScanLength(p, rc, 0, 1, b.col)
        up == ScanLength(p, rc, -1, 0, b.col)
        down == ScanLength(p, rc, 1, 0, b.col)
        hcells == [i \in 1..(left + right + 1) |-> <<rc[1], rc[2] - left + i - 1>>]
        vcells == [i \in 1..(up + down + 1) |-> <<rc[1] - up + i - 1, rc[2]>>]
        mb1 == IF left + right + 1 >= 3 THEN InsertAll(p, mb, hcells) ELSE mb
        mb2 == IF up + down + 1 >= 3 THEN InsertAll(p, mb1, vcells) ELSE mb1
    IN  IF b.col = FAKE THEN mb ELSE mb2

----------------------------------------------------------------------------
(* SpecMatch: one evaluation round of a MatchBuilder over a small pit.     *)
(* The pit is a cross of six cells, row 0 columns 0..3 and column 1 rows   *)
(* -2..0, filled through spawn_block as a test fixture fills it.           *)

MatchCells == << <<0, 0>>, <<0, 1>>, <<0, 2>>, <<0, 3>>, <<-1, 1>>, <<-2, 1>> >>
MatchColors == {1, 2}
MatchHoles == {0, 1, 4}         \* index into MatchCells of the cell left empty; 0: none
MatchFallers == {0, 6}          \* index of the block that is still falling; 0: none
MatchChainers == {0, 2, 5}      \* index of the block marked chaining; 0: none

RECURSIVE BuildCross(_, _, _, _, _, _)
BuildCross(p, i, colors, hole, faller, chainer) ==
    IF i > Len(MatchCells) THEN p
    ELSE IF i = hole THEN BuildCross(p, i + 1, colors, hole, faller, chainer)
    ELSE LET id == p.next_id
             p1 == Pit_spawn_block(p, colors[i], MatchCells[i], "REST")
             p2 == IF i = faller
                   THEN [p1 EXCEPT !.phys[id] = set_state(@, "FALL", ROW_HEIGHT, FALL_SPEED)]
                   ELSE p1
             p3 == IF i = chainer THEN [p2 EXCEPT !.phys[id].chaining = TRUE] ELSE p2
         IN  BuildCross(p3, i + 1, colors, hole, faller, chainer)

InitMatch ==
    /\ \E colors \in [1..Len(MatchCells) -> MatchColors],
          hole \in MatchHoles, faller \in MatchFallers, chainer \in MatchChainers :
           StartPit(BuildCross(NewPit, 1, colors, hole, faller, chainer))
    /\ DirStart
    /\ MbStart
    /\ scen = "match"
    /\ screen = NoScreen
    /\ last_op = [op |-> "init"]
    /\ twin = NoTwin

\* MatchBuilder::ignite on a block that Logic::handle_hots would pass
Ignite ==
    \E id \in DOMAIN phys :
        /\ Len(mb_hots) < MaxIgnite
        /\ phys[id].kind = "Block"
        /\ Block_is_matchable(phys[id])
        /\ LET mb == MatchBuilder_ignite(PitState,
                        [result |-> mb_result, chaining |-> mb_chaining], id)
           IN  /\ mb_result' = mb.result
               /\ mb_chaining' = mb.chaining
        /\ mb_hots' = Append(mb_hots, id)
        /\ last_op' = [op |-> "ignite"]
        /\ UNCHANGED <<pitVars, dirVars, scen, screen, twin>>

NextMatch == Ignite

SpecMatch == InitMatch /\ [][NextMatch]_vars

\* the cells of a straight segment of n cells from rc
Segment(rc, dr, dc, n) == {<<rc[1] + k * dr, rc[2] + k * dc>> : k \in 0..(n - 1)}

\* the horizontal and vertical segments of at least 3 cells near the cross
Runs ==
    {Segment(<<r, c>>, 0, 1, n) : r \in -2..0, c \in 0..3, n \in 3..4}
    \cup {Segment(<<r, c>>, 1, 0, n) : r \in -3..0, c \in 0..3, n \in 3..4}

\* a run of same-colored matchable blocks
IsMatchRun(run) ==
    /\ \A cell \in run :
           /\ cell \in DOMAIN m_content_map
           /\ phys[m_content_map[cell]].kind = "Block"
           /\ Block_is_matchable(phys[m_content_map[cell]])
           /\ phys[m_content_map[cell]].col # FAKE
    /\ \A a \in run, b \in run :
           phys[m_content_map[a]].col = phys[m_content_map[b]].col

\* the blocks lying in a run of at least 3 through one of the blocks of hots
RunBlocks(hots) ==
    {m_content_map[cell] :
        cell \in UNION {run \in Runs :
                          IsMatchRun(run) /\ \E h \in hots : phys[h].rc \in run}}

\* C4: combo() equals the number of distinct blocks lying in a horizontal or
\* vertical run of at least 3 same-colored matchable blocks through an
\* ignited block: 3 for a run of 3, N for a run of N, shared blocks counted
\* once, nothing for shorter runs, so a nonzero combo is at least 3.
C4_ComboCountsRunBlocks ==
    LET mb == [result |-> mb_result, chaining |-> mb_chaining]
    IN  /\ MatchBuilder_combo(mb) = Cardinality(RunBlocks(Range(mb_hots)))
        /\ Range(mb_result) = RunBlocks(Range(mb_hots))
        /\ MatchBuilder_combo(mb) = 0 \/ MatchBuilder_combo(mb) >= 3

\* two ignitions whose runs overlap in one block: a run of 4 and a run of 3
C4_Witness ==
    /\ last_op.op = "ignite"
    /\ Len(mb_hots) = 2
    /\ mb_hots[1] # mb_hots[2]
    /\ Len(mb_result) = 6

\* C5: igniting a block whose run is already in the result set leaves the
\* result set and combo() unchanged, whatever was ignited before.
C5_IgniteIdempotent ==
    [][(/\ last_op'.op = "ignite"
        /\ RunBlocks({mb_hots'[Len(mb_hots')]}) \subseteq Range(mb_result))
       => mb_result' = mb_result]_vars

\* the same block of a run ignited twice
C5_Witness ==
    /\ Len(mb_hots) = 2
    /\ mb_hots[1] = mb_hots[2]
    /\ Len(mb_result) >= 3

----------------------------------------------------------------------------
(* Logic (logic.hpp): the classifier passes of one tick.  The passes work  *)
(* on a record of the Pit p and of what the tick found out so far.         *)

\* position of an occupant in m_contents
IndexOf(seq, id) == CHOOSE i \in 1..Len(seq) : seq[i] = id

\* the occupants of ids lowest row first, ties in m_contents order
RECURSIVE BottomUp(_, _)
BottomUp(p, ids) ==
    IF ids = {} THEN <<>>
    ELSE LET low(id) == p.phys[id].rc[1] + p.phys[id].rows - 1
             first == CHOOSE id \in ids :
                          \A other \in ids :
                              \/ low(id) > low(other)
                              \/ /\ low(id) = low(other)
                                 /\ IndexOf(p.m_contents, id) <= IndexOf(p.m_contents, other)
         IN  <<first>> \o BottomUp(p, ids \ {first})

\* Physical::set_tag, Physical::un_tag
set_tag(o, tag) == [o EXCEPT !.tag = @ \cup {tag}]
un_tag(o, tag) == [o EXCEPT !.tag = @ \ {tag}]

\* Logic::trigger_falls: the occupant at rc and the stack on top of it
RECURSIVE TriggerFallsFrom(_, _, _)
TriggerFallsFrom(p, cells, chaining) ==
    IF cells = <<>> THEN p
    ELSE LET id == Pit_at(p, Head(cells))
         IN  IF id = NULL \/ ~is_fallible(p.phys[id])
             THEN TriggerFallsFrom(p, Tail(cells), chaining)
             ELSE LET o == p.phys[id]
                      tagged == [set_tag(o, TAG_FALL) EXCEPT
                                    !.chaining = IF o.kind = "Block" THEN @ \/ chaining ELSE @]
                      above == [i \in 1..o.columns |-> <<o.rc[1] - 1, o.rc[2] + i - 1>>]
                  IN  TriggerFallsFrom([p EXCEPT !.phys[id] = tagged],
                                       Tail(cells) \o above, chaining)

\* Logic::trigger_falls that marks the occupant of the cell and leaves the
\* stack on top of it alone
Logic_trigger_falls_single(p, rc, chaining) ==
    LET id == Pit_at(p, rc)
    IN  IF id = NULL \/ ~is_fallible(p.phys[id]) THEN p
        ELSE [p EXCEPT !.phys[id] =
                 [set_tag(@, TAG_FALL) EXCEPT
                     !.chaining = IF p.phys[id].kind = "Block" THEN @ \/ chaining ELSE @]]

\* Logic::trigger_falls that marks nothing as chaining
Logic_trigger_falls_plain(p, rc, chaining) == TriggerFallsFrom(p, <<rc>>, FALSE)

\* Logic::trigger_falls
Logic_trigger_falls(p, rc, chaining) == TriggerFallsFrom(p, <<rc>>, chaining)

\* Logic::examine_pit that sees no chaining and no breaking occupant
Logic_examine_pit_calm(p) ==
    [chaining |-> FALSE, breaking |-> FALSE, full |-> Pit_is_full(p)]

\* Logic::examine_pit
Logic_examine_pit(p) ==
    [chaining |-> \E id \in DOMAIN p.phys : p.phys[id].kind = "Block" /\ p.phys[id].chaining,
     breaking |-> \E id \in DOMAIN p.phys : p.phys[id].state = "BREAK",
     full |-> Pit_is_full(p)]

\* Logic::examine_finish: the occupants that died in this tick
RECURSIVE ExamineFinishFrom(_, _)
ExamineFinishFrom(x, ids) ==
    IF ids = <<>> THEN x
    ELSE LET id == Head(ids)
             o == x.p.phys[id]
         IN  IF o.state # "DEAD" THEN ExamineFinishFrom(x, Tail(ids))
             ELSE IF o.kind # "Block"
             THEN ExamineFinishFrom([x EXCEPT !.dead_physical = TRUE], Tail(ids))
             ELSE ExamineFinishFrom(
                      [x EXCEPT !.dead_physical = TRUE,
                                !.dead_block = TRUE,
                                !.dead_sound = @ \/ o.col # FAKE,
                                !.chainstop = @ \/ o.col # FAKE,
                                !.p = Logic_trigger_falls(x.p, <<o.rc[1] - 1, o.rc[2]>>,
                                                          o.col # FAKE)],
                      Tail(ids))
Logic_examine_finish(x) == ExamineFinishFrom(x, x.p.m_contents)

\* a block that was just spawned may match
MakeHot(p, id) == IF p.err THEN p ELSE [p EXCEPT !.phys[id] = set_tag(@, TAG_HOT)]

\* the loot of one dissolved row appears as blocks in the vacated cells
RECURSIVE SpawnLoot(_, _, _, _)
SpawnLoot(p, loot, low, col) ==
    IF loot = <<>> \/ p.err THEN p
    ELSE SpawnLoot(MakeHot(Pit_spawn_block(p, Head(loot), <<low, col>>, "REST"), p.next_id),
                   Tail(loot), low, col + 1)

RECURSIVE TriggerRow(_, _, _, _)
TriggerRow(p, row, col, count) ==
    IF count = 0 THEN p
    ELSE TriggerRow(Logic_trigger_falls(p, <<row, col>>, TRUE), row, col + 1, count - 1)

\* what is left of a garbage after Pit::shrink rests again
RestIfLeft(p, id) ==
    IF id \in DOMAIN p.phys THEN [p EXCEPT !.phys[id] = set_state(@, "REST", 1, 1)] ELSE p

\* the blocks that came out of the garbage may fall, as chaining blocks
TriggerLoot(p, row, col, count) == IF p.err THEN p ELSE TriggerRow(p, row, col, count)

\* Logic::convert_garbage
RECURSIVE ConvertGarbageFrom(_, _)
ConvertGarbageFrom(x, ids) ==
    IF ids = <<>> \/ x.p.err THEN x
    ELSE LET id == Head(ids)
             o == x.p.phys[id]
         IN  IF ~(o.kind = "Garbage" /\ o.state = "BREAK" /\ is_arriving(o))
             THEN ConvertGarbageFrom(x, Tail(ids))
             ELSE LET low == o.rc[1] + o.rows - 1
                      loot == SubSeq(o.loot, 1, o.columns)
                      left == RestIfLeft(Pit_shrink(x.p, id), id)
                  IN  ConvertGarbageFrom(
                          [x EXCEPT !.p = TriggerLoot(SpawnLoot(left, loot, low, o.rc[2]),
                                                      low, o.rc[2], o.columns),
                                    !.ev = Append(@, [type |-> "GarbageDissolves"])],
                          Tail(ids))
Logic_convert_garbage(x) == ConvertGarbageFrom(x, x.p.m_contents)

\* Logic::handle_fallers
RECURSIVE HandleFallersFrom(_, _)
HandleFallersFrom(p, ids) ==
    IF ids = <<>> \/ p.err THEN p
    ELSE LET id == Head(ids)
         IN  IF Pit_can_fall(p, id)
             THEN LET p1 == [p EXCEPT !.phys[id] =
                                un_tag(set_state(@, "FALL", ROW_HEIGHT, FALL_SPEED), TAG_HOT)]
                  IN  HandleFallersFrom(Pit_fall(p1, id), Tail(ids))
             ELSE HandleFallersFrom(
                      [p EXCEPT !.phys[id].chaining =
                                    IF TAG_HOT \in p.phys[id].tag THEN @ ELSE FALSE],
                      Tail(ids))
Logic_handle_fallers(p) ==
    HandleFallersFrom(p, BottomUp(p, {id \in DOMAIN p.phys : TAG_FALL \in p.phys[id].tag}))

\* the cells next to a cell
Neighbours(rc) ==
    {<<rc[1] - 1, rc[2]>>, <<rc[1] + 1, rc[2]>>, <<rc[1], rc[2] - 1>>, <<rc[1], rc[2] + 1>>}

\* Logic::touch_garbage: the garbage next to the given cells, and the garbage
\* those touch in turn
RECURSIVE TouchedGarbage(_, _)
TouchedGarbage(p, touched) ==
    LET cells == UNION {Footprint(p.phys[g]) : g \in touched}
        more == {g \in DOMAIN p.phys :
                    /\ p.phys[g].kind = "Garbage"
                    /\ g \notin touched
                    /\ \E cell \in cells : Neighbours(cell) \cap Footprint(p.phys[g]) # {}}
    IN  IF more = {} THEN touched ELSE TouchedGarbage(p, touched \cup more)

RECURSIVE IgniteAll(_, _, _)
IgniteAll(p, mb, ids) ==
    IF ids = <<>> THEN mb
    ELSE IgniteAll(p, MatchBuilder_ignite(p, mb, Head(ids)), Tail(ids))

\* the blocks Logic::handle_hots ignites, in m_contents order
HotBlocks(p) ==
    SelectSeq(p.m_contents,
        LAMBDA id : /\ TAG_HOT \in p.phys[id].tag
                    /\ p.phys[id].kind = "Block"
                    /\ Block_is_matchable(p.phys[id]))

\* Logic::handle_hots, once the MatchBuilder mb has seen the hot blocks
BreakMatched(x, hots, mb) ==
    LET p == x.p
        matched == Range(mb.result)
        next_to == {g \in DOMAIN p.phys :
                       /\ p.phys[g].kind = "Garbage"
                       /\ \E b \in matched :
                              Neighbours(p.phys[b].rc) \cap Footprint(p.phys[g]) # {}}
        touched == {g \in TouchedGarbage(p, next_to) : p.phys[g].state = "REST"}
        stopped == {id \in Range(hots) : id \notin matched /\ p.phys[id].chaining}
        after(id) ==
            IF id \in matched THEN set_state(p.phys[id], "BREAK", BREAK_TIME, 1)
            ELSE IF id \in touched
            THEN set_tag(set_state(p.phys[id], "BREAK", DISSOLVE_TIME, 1), TAG_TOUCH)
            ELSE IF id \in stopped THEN [p.phys[id] EXCEPT !.chaining = FALSE]
            ELSE p.phys[id]
    IN  [x EXCEPT !.p = [p EXCEPT !.phys = [id \in DOMAIN p.phys |-> after(id)]],
                  !.have_match = MatchBuilder_combo(mb) > 0,
                  !.combo = MatchBuilder_combo(mb),
                  !.chaining = MatchBuilder_chaining(mb),
                  !.chainstop = @ \/ stopped # {}]

\* Logic::handle_hots
Logic_handle_hots(x) ==
    BreakMatched(x, HotBlocks(x.p), IgniteAll(x.p, NewMatchBuilder, HotBlocks(x.p)))

----------------------------------------------------------------------------
(* BlockDirector (director.hpp)                                            *)

\* what one BlockDirector::update knows at its start
NewUpdate(p, bottom, seed, calls) ==
    [p |-> Pit_untag_all(p), d_bottom |-> bottom, seed |-> seed, calls |-> calls,
     dead_physical |-> FALSE, dead_block |-> FALSE, dead_sound |-> FALSE,
     chainstop |-> FALSE, have_match |-> FALSE, combo |-> 0, chaining |-> FALSE,
     ev |-> <<>>]

\* one row of preview blocks in the colors the supplier delivers
RECURSIVE SpawnRow(_, _, _, _)
SpawnRow(p, colors, row, col) ==
    IF colors = <<>> \/ p.err THEN p
    ELSE SpawnRow(Pit_spawn_block(p, Head(colors), <<row, col>>, "PREVIEW"),
                  Tail(colors), row, col + 1)

\* BlockDirector::spawn_previews: a row of previews below the visible rows
RECURSIVE Director_spawn_previews(_)
Director_spawn_previews(x) ==
    IF x.p.err \/ x.d_bottom > Pit_bottom(x.p) THEN x
    ELSE Director_spawn_previews(
             [x EXCEPT !.p = SpawnRow(x.p, NextColors(x.seed, x.calls, PIT_COLS),
                                      x.d_bottom + 1, 0),
                       !.d_bottom = @ + 1,
                       !.calls = @ + PIT_COLS])

\* BlockDirector::activate_previews: previews that scrolled into view rest
Director_activate_previews(x) ==
    LET p == x.p
        wakes(o) == o.kind = "Block" /\ o.state = "PREVIEW" /\ o.rc[1] <= Pit_bottom(p)
    IN  [x EXCEPT !.p.phys = [id \in DOMAIN p.phys |->
                                 IF wakes(p.phys[id])
                                 THEN set_tag(set_state(p.phys[id], "REST", 1, 1), TAG_HOT)
                                 ELSE p.phys[id]]]

\* BlockDirector: an occupant arrives from its fall
Director_arrive_fall(p, id) ==
    IF Pit_can_fall(p, id)
    THEN LET p1 == Pit_fall(p, id)
         IN  IF p1.err THEN p1
             ELSE [p1 EXCEPT !.phys[id] = continue_state(@, ROW_HEIGHT)]
    ELSE IF p.phys[id].kind = "Block"
    THEN [p EXCEPT !.phys[id] = set_tag(set_state(@, "LAND", LAND_TIME, 1), TAG_HOT)]
    ELSE [p EXCEPT !.phys[id] = set_state(@, "REST", 1, 1)]

\* BlockDirector: a block arrives from its swap; the placeholder partner dies
Director_arrive_swap(p, id) ==
    IF p.phys[id].col = FAKE
    THEN [p EXCEPT !.phys[id] = set_state(@, "DEAD", 1, 1)]
    ELSE Logic_trigger_falls(
             [p EXCEPT !.phys[id] = set_tag(set_state(@, "REST", 1, 1), TAG_HOT)],
             p.phys[id].rc, FALSE)

RECURSIVE ArrivalsFrom(_, _)
ArrivalsFrom(p, ids) ==
    IF ids = <<>> \/ p.err THEN p
    ELSE LET id == Head(ids)
             o == p.phys[id]
         IN  IF o.state = "FALL"
             THEN ArrivalsFrom(Director_arrive_fall(p, id), Tail(ids))
             ELSE ArrivalsFrom(Director_arrive_swap(p, id), Tail(ids))

\* BlockDirector: arrival handling of the occupants whose fall or swap ends
Director_arrivals(x) ==
    LET p == x.p
        arriving == {id \in DOMAIN p.phys :
                        /\ is_arriving(p.phys[id])
                        /\ p.phys[id].state \in {"FALL", "SWAP_LEFT", "SWAP_RIGHT"}}
    IN  [x EXCEPT !.p = ArrivalsFrom(p, BottomUp(p, arriving))]

\* BlockDirector::update: events, chain counter and panic after the passes
Director_bookkeeping(x, panic, over) ==
    LET ev1 == IF x.dead_sound THEN Append(x.ev, [type |-> "BlockDies"]) ELSE x.ev
        ev2 == IF x.have_match
               THEN Append(ev1, [type |-> "Match", combo |-> x.combo, chaining |-> x.chaining])
               ELSE ev1
        chain1 == IF x.have_match /\ x.chaining THEN x.p.m_chain + 1 ELSE x.p.m_chain
        seen == Logic_examine_pit(x.p)
        finish == x.chainstop /\ ~seen.chaining /\ ~seen.breaking
        ev3 == IF finish THEN Append(ev2, [type |-> "Chain", counter |-> chain1]) ELSE ev2
        chain2 == IF finish THEN 0 ELSE chain1
        ticking == seen.full /\ panic /\ x.p.m_panic > 0
        panic_time == IF seen.full /\ ~panic THEN PANIC_TIME
                      ELSE IF ticking THEN x.p.m_panic - 1
                      ELSE x.p.m_panic
    IN  [p |-> [x.p EXCEPT !.m_chain = chain2, !.m_panic = panic_time],
         d_bottom |-> x.d_bottom, calls |-> x.calls, ev |-> ev3,
         d_panic |-> seen.full,
         d_over |-> over \/ (ticking /\ panic_time = 0)]

\* an exception in a pass leaves the director as it was
Director_finish(x, panic, over) ==
    IF x.p.err
    THEN [p |-> x.p, d_bottom |-> x.d_bottom, calls |-> x.calls, ev |-> x.ev,
          d_panic |-> panic, d_over |-> over]
    ELSE Director_bookkeeping(x, panic, over)

\* a pass is skipped once an exception is under way
Pass(x, Op(_)) == IF x.p.err THEN x ELSE Op(x)
PitPass(x, Op(_)) == IF x.p.err THEN x ELSE [x EXCEPT !.p = Op(x.p)]

\* BlockDirector::update
Director_update(p, bottom, seed, calls, panic, over) ==
    LET x0 == NewUpdate(p, bottom, seed, calls)
        x1 == Pass(x0, Director_spawn_previews)
        x2 == Pass(x1, Director_activate_previews)
        x3 == Pass(x2, Director_arrivals)
        x4 == Pass(x3, Logic_examine_finish)
        x5 == PitPass(x4, Pit_remove_dead)
        x6 == Pass(x5, Logic_convert_garbage)
        x7 == PitPass(x6, Logic_handle_fallers)
        x8 == Pass(x7, Logic_handle_hots)
    IN  Director_finish(x8, panic, over)

\* an empty cell takes part in a swap as a placeholder block
FillWithFake(p, rc) ==
    IF Pit_at(p, rc) = NULL THEN Pit_spawn_block(p, FAKE, rc, "REST") ELSE p

\* the two blocks start to move and trade places in the pit at once
StartSwap(p, lrc, rrc) ==
    LET left == Pit_block_at(p, lrc)
        right == Pit_block_at(p, rrc)
    IN  Pit_swap([p EXCEPT !.phys[left] = set_state(@, "SWAP_RIGHT", SWAP_TIME, 1),
                           !.phys[right] = set_state(@, "SWAP_LEFT", SWAP_TIME, 1)],
                 left, right)

\* BlockDirector::swap.  The result is [p, accepted].
Director_swap(p, lrc) ==
    LET rrc == <<lrc[1], lrc[2] + 1>>
        blocked(rc) == /\ Pit_at(p, rc) # NULL
                       /\ \/ Pit_block_at(p, rc) = NULL
                          \/ ~Block_is_swappable(p.phys[Pit_block_at(p, rc)])
    IN  IF (Pit_at(p, lrc) = NULL /\ Pit_at(p, rrc) = NULL) \/ blocked(lrc) \/ blocked(rrc)
        THEN [p |-> p, accepted |-> FALSE]
        ELSE [p |-> StartSwap(FillWithFake(FillWithFake(p, lrc), rrc), lrc, rrc),
              accepted |-> TRUE]

----------------------------------------------------------------------------
(* Spec: the game.  A run starts from a pit laid out like the fixtures of  *)
(* the repository's tests, then ticks (Pit::update, BlockDirector::update) *)
(* while the player swaps at the moments the scenario allows.              *)

BLUE == 1
RED == 2
YELLOW == 3
GREEN == 4
PURPLE == 5
ORANGE == 6

B(col, r, c) == [kind |-> "Block", col |-> col, rc |-> <<r, c>>, columns |-> 1, rows |-> 1]
G(r, c, w, h) == [kind |-> "Garbage", col |-> FAKE, rc |-> <<r, c>>, columns |-> w, rows |-> h]
M(r, c, from, to) == [coord |-> <<r, c>>, from |-> from, to |-> to]

\* spawn_falling_block of the tests: a block set in motion belongs on the row
\* below, where it expects to arrive from its fall
F(col, r, c) == [kind |-> "Faller", col |-> col, rc |-> <<r + 1, c>>, columns |-> 1, rows |-> 1]

\* BlockDirectorTest::SetUp
Fixture ==
    << B(BLUE, 0, 0), B(RED, 0, 1), B(YELLOW, 0, 2), B(GREEN, 0, 3), B(PURPLE, 0, 4),
       B(ORANGE, 0, 5),
       B(ORANGE, -1, 0), B(BLUE, -1, 1), B(RED, -1, 2), B(YELLOW, -1, 3), B(GREEN, -1, 4),
       B(PURPLE, -1, 5),
       B(BLUE, -2, 0), B(RED, -2, 1), B(YELLOW, -2, 2), B(GREEN, -2, 3), B(PURPLE, -2, 4),
       B(ORANGE, -2, 5),
       B(RED, -3, 2), B(YELLOW, -3, 3), B(GREEN, -3, 4) >>

\* PanicSimple's pillar, one block higher
Pillar ==
    << B(RED, -4, 3), B(YELLOW, -5, 3), B(GREEN, -6, 3), B(PURPLE, -7, 3),
       B(ORANGE, -8, 3), B(BLUE, -9, 3) >>

\* the layouts and the swaps the player may try: coord, first tick, last tick
Scenarios ==
    [chain |->
        [layout |-> << B(BLUE, 0, 0), B(BLUE, 0, 1), B(RED, 0, 2), B(BLUE, 0, 3),
                       B(RED, 0, 4), B(RED, -1, 2) >>,
         moves |-> {M(0, 2, 0, 1), M(0, 1, 7, 7), M(1, 0, 2, 2), M(-3, 0, 3, 3),
                    M(0, 2, 38, 39), M(-1, 1, 0, 0)}],
     fixture |->
        [layout |-> Fixture,
         moves |-> {M(-1, 2, 0, 0), M(0, 2, 49, 50), M(-2, 2, 10, 10), M(-3, 1, 1, 1)}],
     horizontal |->
        [layout |-> Fixture \o << B(RED, -3, 0), B(RED, -4, 2) >>,
         moves |-> {M(-4, 1, 0, 1), M(-3, 1, 20, 20)}],
     garbage |->
        [layout |-> Fixture \o << G(-5, 0, 6, 2) >>,
         moves |-> {M(-2, 2, 0, 0), M(-5, 2, 1, 1), M(-3, 1, 2, 2), M(-4, 1, 40, 40)}],
     dissolve |->
        [layout |-> << B(BLUE, 0, 0), B(BLUE, 0, 1), B(BLUE, 0, 3), G(-1, 2, 3, 1) >>,
         moves |-> {M(0, 2, 0, 2), M(-1, 1, 8, 8)}],
     shrink |->
        [layout |-> Fixture \o << G(-6, 0, 6, 2), B(YELLOW, -4, 2) >>,
         moves |-> {M(-3, 2, 0, 0)}],
     swapfall |->
        [layout |-> Fixture \o << B(RED, -4, 4), F(GREEN, -6, 5) >>,
         moves |-> {M(-4, 4, 1, 2)}],
     ledge |->
        [layout |-> Fixture \o << B(RED, -4, 4), B(BLUE, -4, 3), G(-5, 3, 3, 1) >>,
         moves |-> {M(-4, 4, 0, 1)}],
     panic |->
        [layout |-> Fixture \o Pillar,
         moves |-> {}],
     relief |->
        [layout |-> Fixture \o Pillar,
         moves |-> {M(-9, 3, 30, 30)}]]

\* the seed of the color supplier
Seed == 0

\* spawn_falling_block: the block just spawned is set falling
SetFalling(p, id) ==
    IF p.err THEN p ELSE [p EXCEPT !.phys[id] = set_state(@, "FALL", ROW_HEIGHT, FALL_SPEED)]

\* the fixture's spawn_block and spawn_garbage calls.  The result is [p, calls].
RECURSIVE Build(_, _, _)
Build(p, calls, layout) ==
    IF layout = <<>> \/ p.err THEN [p |-> p, calls |-> calls]
    ELSE LET it == Head(layout)
         IN  IF it.kind = "Block"
             THEN Build(Pit_spawn_block(p, it.col, it.rc, "REST"), calls, Tail(layout))
             ELSE IF it.kind = "Faller"
             THEN Build(SetFalling(Pit_spawn_block(p, it.col, it.rc, "REST"), p.next_id),
                        calls, Tail(layout))
             ELSE LET n == it.columns * it.rows
                  IN  Build(Pit_spawn_garbage(p, it.rc, it.columns, it.rows,
                                              NextColors(Seed, calls, n)),
                            calls + n, Tail(layout))

\* BlockDirector::swap that reports a swap whatever became of it
Director_swap_events_always(r) == <<[type |-> "Swap"]>>

\* BlockDirector::swap fires the Swap event of a swap it accepted
Director_swap_events(r) ==
    IF r.accepted /\ ~r.p.err THEN <<[type |-> "Swap"]>> ELSE <<>>

\* the game before its first tick
GameInit ==
    \E name \in DOMAIN Scenarios :
        LET built == Build(NewPit, 0, Scenarios[name].layout)
        IN  /\ scen = name
            /\ StartPit(built.p)
            /\ d_bottom = 0
            /\ d_panic = FALSE
            /\ d_over = FALSE
            /\ color_calls = built.calls
            /\ events = <<>>
            /\ MbStart
            /\ last_op = [op |-> "init"]

Init == GameInit /\ twin = NoTwin /\ screen = NoScreen

\* one game tick: Pit::update, then BlockDirector::update.  GamePlay::update
\* leaves the play phase once the director reports over().
TickWithin(max) ==
    /\ ~err
    /\ ~d_over
    /\ m_cursor.time < max
    /\ \E p1 \in {Pit_update(PitState)} :
           IF p1.err
           THEN /\ SetPit(p1)
                /\ events' = <<>>
                /\ UNCHANGED <<d_bottom, d_panic, d_over, color_calls>>
           ELSE \E r \in {Director_update(p1, d_bottom, Seed, color_calls, d_panic, d_over)} :
                    /\ SetPit(r.p)
                    /\ d_bottom' = r.d_bottom
                    /\ d_panic' = r.d_panic
                    /\ d_over' = r.d_over
                    /\ color_calls' = r.calls
                    /\ events' = r.ev
    /\ last_op' = [op |-> "tick"]
    /\ UNCHANGED <<mbVars, scen, screen>>

GameTick == TickWithin(MaxTicks)

Tick == GameTick /\ UNCHANGED twin

\* the state of the occupant of a cell, for the record of a swap
StateAt(p, rc) == IF Pit_at(p, rc) = NULL THEN "NONE" ELSE p.phys[Pit_at(p, rc)].state

\* the player's swap m: BlockDirector::swap at a cell the scenario allows now
SwapAt(m) ==
    /\ ~err
    /\ ~d_over
    /\ m_cursor.time \in m.from..m.to
    /\ \E r \in {Director_swap(PitState, m.coord)} :
           /\ SetPit(r.p)
           /\ events' = Director_swap_events(r)
           /\ last_op' = [op |-> "swap", coord |-> m.coord, accepted |-> r.accepted,
                          was |-> <<StateAt(PitState, m.coord),
                                    StateAt(PitState, <<m.coord[1], m.coord[2] + 1>>)>>]
    /\ UNCHANGED <<d_bottom, d_panic, d_over, color_calls, mbVars, scen, screen>>

DirectorSwap == \E m \in Scenarios[scen].moves : SwapAt(m) /\ UNCHANGED twin

Next ==
    \/ Tick
    \/ DirectorSwap

Spec == Init /\ [][Next]_vars

----------------------------------------------------------------------------
(* Properties of the game                                                  *)

\* the step is a game tick / ends with the player's swap at some cell
IsTick == m_cursor'.time = m_cursor.time + 1
IsSwap == last_op'.op = "swap"
RightOf(rc) == <<rc[1], rc[2] + 1>>

\* the events fired in the last step
Fired(type) == {events[i] : i \in {j \in 1..Len(events) : events[j].type = type}}

\* C2: Pit::swap on two Blocks which the index records at their own
\* coordinates exchanges their coordinates, their index entries and their
\* chaining flags, also when a block is swapped in the middle of its fall: a
\* chaining block is not chaining afterwards and its partner is.
C2_SwapExchanges ==
    [][(IsSwap /\ last_op'.accepted)
       => LET lrc == last_op'.coord
              rrc == RightOf(lrc)
              l == Pit_block_at(PitState, lrc)
              r == Pit_block_at(PitState, rrc)
              was_chaining(id) == id # NULL /\ phys[id].chaining
          IN  /\ ~err'
              /\ l # NULL => /\ phys'[l].rc = rrc
                             /\ m_content_map'[rrc] = l
                             /\ phys'[l].chaining = was_chaining(r)
              /\ r # NULL => /\ phys'[r].rc = lrc
                             /\ m_content_map'[lrc] = r
                             /\ phys'[r].chaining = was_chaining(l)]_vars

\* the chaining red block was swapped in the middle of its fall: the green
\* block that rested next to it took over the marker
C2_Witness ==
    /\ last_op.op = "swap"
    /\ last_op.accepted
    /\ LET l == Pit_block_at(PitState, last_op.coord)
           r == Pit_block_at(PitState, RightOf(last_op.coord))
       IN  /\ l # NULL
           /\ r # NULL
           /\ phys[l].chaining
           /\ phys[l].state = "SWAP_LEFT"
           /\ phys[l].time = SWAP_TIME
           /\ ~phys[r].chaining
           /\ phys[r].state = "SWAP_RIGHT"
           /\ phys[r].speed = 1

\* an occupant that no swap may move: a Garbage, or a Block that is a preview,
\* breaking or dead
Unswappable(rc) ==
    LET id == Pit_at(PitState, rc)
    IN  /\ id # NULL
        /\ \/ phys[id].kind = "Garbage"
           \/ phys[id].state \in {"PREVIEW", "BREAK", "DEAD"}

\* C3: BlockDirector::swap at a cell that holds, or whose right neighbour
\* holds, a Garbage or a Block in Preview, Breaking or Dead, or whose two
\* cells are both empty, returns false without throwing and leaves every
\* occupant's coordinate, state, timer and chaining flag and the index as
\* they were.
C3_SwapRejected ==
    [][(/\ IsSwap
        /\ LET lrc == last_op'.coord
           IN  \/ Unswappable(lrc)
               \/ Unswappable(RightOf(lrc))
               \/ Pit_at(PitState, lrc) = NULL /\ Pit_at(PitState, RightOf(lrc)) = NULL)
       => /\ ~last_op'.accepted
          /\ ~err'
          /\ UNCHANGED <<m_contents, phys, m_content_map>>]_vars

\* a swap on a breaking block was turned down
C3_Witness ==
    /\ last_op.op = "swap"
    /\ ~last_op.accepted
    /\ ~err
    /\ LET id == Pit_block_at(PitState, last_op.coord)
       IN  id # NULL /\ phys[id].state = "BREAK"

\* the blocks the last tick matched
JustMatched ==
    {id \in DOMAIN phys : /\ phys[id].kind = "Block"
                          /\ phys[id].state = "BREAK"
                          /\ phys[id].time = BREAK_TIME}

\* C6: the chaining value of a match, as the Match event reports it, is true
\* iff at least one of the matched blocks is chaining: a match among blocks
\* that the player swapped and that did not fall is not chaining, a match
\* completed by a block that fell after an earlier match is.
C6_MatchChaining ==
    /\ last_op.op = "tick" /\ ~err =>
           /\ (Fired("Match") # {}) <=> (JustMatched # {})
           /\ \A e \in Fired("Match") :
                  /\ e.chaining <=> \E id \in JustMatched : phys[id].chaining
                  /\ e.combo = Cardinality(JustMatched)
    /\ last_op.op # "tick" => Fired("Match") = {}

\* the second match of the cascade: the block that fell into the gap is in it
C6_Witness ==
    /\ \E e \in Fired("Match") : e.chaining /\ e.combo = 3
    /\ \E id \in JustMatched : phys[id].chaining
    /\ \E id \in JustMatched : ~phys[id].chaining

\* the three-cell lines through a cell
Lines(rc) ==
    {Segment(<<rc[1], rc[2] - k>>, 0, 1, 3) : k \in 0..2}
    \cup {Segment(<<rc[1] - k, rc[2]>>, 1, 0, 3) : k \in 0..2}

\* no block that came to rest in the last tick lies in a run that is left
\* standing
NoHotRun ==
    \A id \in DOMAIN phys :
        (phys[id].kind = "Block" /\ TAG_HOT \in phys[id].tag)
        => ~\E line \in Lines(phys[id].rc) : IsMatchRun(line)

\* the blocks that broke in the last tick broke as runs of at least 3
RunsBreakTogether ==
    \A id \in JustMatched :
        \E line \in Lines(phys[id].rc) :
            \A cell \in line :
                /\ Pit_block_at(PitState, cell) \in JustMatched
                /\ phys[Pit_block_at(PitState, cell)].col = phys[id].col

\* a block enters Breaking with BREAK_TIME ticks remaining
BreakEnters ==
    \A id \in DOMAIN phys' :
        (/\ phys'[id].kind = "Block"
         /\ phys'[id].state = "BREAK"
         /\ ~(id \in DOMAIN phys /\ phys[id].state = "BREAK"))
        => phys'[id].time = BREAK_TIME

\* a breaking block stays where it is and counts down
BreakCountsDown ==
    \A id \in DOMAIN phys :
        (phys[id].kind = "Block" /\ phys[id].state = "BREAK" /\ phys[id].time > 1)
        => /\ id \in DOMAIN phys'
           /\ phys'[id].state = "BREAK"
           /\ phys'[id].time = phys[id].time - 1
           /\ phys'[id].rc = phys[id].rc
           /\ Pit_at(PitState', phys[id].rc) = id

\* the blocks whose break ends in this tick
BreakEnding ==
    {id \in DOMAIN phys :
        phys[id].kind = "Block" /\ phys[id].state = "BREAK" /\ phys[id].time = 1}

\* the blocks whose break ends are gone from the pit
BreakEndsRemoved ==
    \A id \in BreakEnding :
        /\ id \notin DOMAIN phys'
        /\ id \notin Range(m_contents')
        /\ \A cell \in DOMAIN m_content_map' : m_content_map'[cell] # id

\* the cells of the blocks whose break ends are empty
BreakEndsEmpty ==
    \A id \in BreakEnding : Pit_at(PitState', phys[id].rc) = NULL

Dissolving ==
    {g \in DOMAIN phys :
        phys[g].kind = "Garbage" /\ phys[g].state = "BREAK" /\ phys[g].time = 1}

\* the cells of the index that map to an occupant
CellsOf(map, id) == {cell \in DOMAIN map : map[cell] = id}

\* the lowest row of an occupant
LowRow(o) == {<<o.rc[1] + o.rows - 1, o.rc[2] + i>> : i \in 0..(o.columns - 1)}

\* a tick in which a dissolve timer elapses takes one row off the garbage;
\* a garbage left without support falls in that tick (Pit::fall) and is then
\* indexed one row down
TickDissolvesOneRow ==
    [][IsTick =>
        /\ ~err'
        /\ \A g \in Dissolving :
               LET o == phys[g]
               IN  IF o.rows = 1
                   THEN /\ g \notin DOMAIN phys'
                        /\ CellsOf(m_content_map', g) = {}
                   ELSE /\ g \in DOMAIN phys'
                        /\ phys'[g].rows = o.rows - 1
                        /\ phys'[g].loot = SubSeq(o.loot, o.columns + 1, Len(o.loot))
                        /\ CellsOf(m_content_map', g) = Footprint(phys'[g])
                        /\ phys'[g].rc \in {o.rc, <<o.rc[1] + 1, o.rc[2]>>}
        /\ \A g \in DOMAIN phys \ Dissolving :
               phys[g].kind = "Garbage"
               => /\ g \in DOMAIN phys'
                  /\ phys'[g].rows = phys[g].rows
                  /\ phys'[g].loot = phys[g].loot]_vars

\* C8: each time the dissolve timer of a breaking Garbage elapses and the
\* Garbage is shrunk, exactly one row is removed: the height drops by exactly
\* 1 (from 2 to 1, not to 0), exactly width loot entries are consumed so that
\* the loot keeps width x height entries, the cells of the removed row no
\* longer map to the Garbage while its other cells still do, and the Garbage
\* leaves the store only when its height reaches 0.
C8_ShrinkRemovesOneRow ==
    [][last_op'.op = "shrink" =>
        LET g == last_op'.id
            o == phys[g]
        IN  /\ ~err'
            /\ CellsOf(m_content_map', g) = Footprint(o) \ LowRow(o)
            /\ LowRow(o) \cap DOMAIN m_content_map' = {}
            /\ IF o.rows = 1
               THEN /\ g \notin DOMAIN phys'
                    /\ g \notin Range(m_contents')
               ELSE /\ g \in DOMAIN phys'
                    /\ g \in Range(m_contents')
                    /\ phys'[g].rows = o.rows - 1
                    /\ phys'[g].rows >= 1
                    /\ phys'[g].columns = o.columns
                    /\ phys'[g].rc = o.rc
                    /\ phys'[g].loot = SubSeq(o.loot, o.columns + 1, Len(o.loot))
                    /\ Len(phys'[g].loot) = Len(o.loot) - o.columns
                    /\ Len(phys'[g].loot) = phys'[g].columns * phys'[g].rows
            /\ \A other \in DOMAIN phys \ {g} :
                   other \in DOMAIN phys' /\ phys'[other] = phys[other]]_vars

\* a breaking garbage of two rows and two columns has lost its lower row
C8_Witness ==
    /\ last_op.op = "shrink"
    /\ ~err
    /\ last_op.id \in DOMAIN phys
    /\ phys[last_op.id].state = "BREAK"
    /\ phys[last_op.id].rows = 1
    /\ phys[last_op.id].columns = 2
    /\ Len(phys[last_op.id].loot) = 2

\* a block at rest
AtRest(id) == phys[id].kind = "Block" /\ phys[id].state \in {"REST", "LAND"}

\* the block stands in a stack of blocks at rest on a block of a match whose
\* break ends in this tick
StandsOnClearedMatch(id) ==
    /\ AtRest(id)
    /\ \E d \in BreakEnding :
           /\ phys[d].col # FAKE
           /\ phys[d].rc[2] = phys[id].rc[2]
           /\ phys[d].rc[1] > phys[id].rc[1]
           /\ \A r \in (phys[id].rc[1] + 1)..(phys[d].rc[1] - 1) :
                  LET between == Pit_block_at(PitState, <<r, phys[id].rc[2]>>)
                  IN  between # NULL /\ AtRest(between)

\* C9: a block that starts falling because the cell below it was vacated by a
\* cleared match is chaining for as long as it is Falling, and is not chaining
\* once it has landed without taking part in a further match.
C9_ChainingWhileFalling ==
    [][IsTick =>
        \A id \in (DOMAIN phys) \cap (DOMAIN phys') :
            /\ StandsOnClearedMatch(id) =>
                   /\ phys'[id].state = "FALL"
                   /\ phys'[id].chaining
            /\ (phys[id].kind = "Block" /\ phys[id].state = "FALL" /\ phys[id].chaining) =>
                   /\ phys'[id].state \in {"FALL", "LAND", "BREAK"}
                   /\ phys'[id].state = "FALL" => phys'[id].chaining
                   /\ phys'[id].state = "LAND" => ~phys'[id].chaining
                   /\ phys'[id].state = "BREAK" => phys'[id].chaining]_vars

\* the block that fell after the match has landed next to nothing of its color
C9_Witness ==
    /\ last_op.op = "tick"
    /\ m_cursor.time > SWAP_TIME + BREAK_TIME
    /\ Fired("BlockDies") = {}
    /\ Fired("Match") = {}
    /\ Fired("Chain") # {}
    /\ \E id \in DOMAIN phys :
           /\ phys[id].kind = "Block"
           /\ phys[id].state = "LAND"
           /\ phys[id].time = LAND_TIME
           /\ ~phys[id].chaining

\* a resting occupant lies above the top row
RestingAboveTop ==
    \E id \in DOMAIN phys :
        phys[id].state = "REST" /\ phys[id].rc[1] < CeilDiv(m_scroll, ROW_HEIGHT)

\* the top of the column of the panic scenario, and whether it still stands
ColumnTop == <<-9, 3>>
ColumnStands ==
    /\ scen = "panic"
    /\ Pit_block_at(PitState, ColumnTop) # NULL
    /\ phys[Pit_block_at(PitState, ColumnTop)].state = "REST"

\* the first tick after which the top row has scrolled below the column's top
PanicOnset ==
    Min({t \in 0..(MaxTicks + 1) :
            ColumnTop[1] < CeilDiv(NewPit.m_scroll + t * SCROLL_SPEED, ROW_HEIGHT)})

\* C10: with a column of resting blocks that crosses the top row and stays
\* there, is_panic() becomes true with the first tick after which a resting
\* occupant lies above top(); over() is false on every tick before the
\* PANIC_TIME-th tick after that one, the PANIC_TIME-1 panic ticks included,
\* and true on it; and is_panic() holds whenever over() holds.
C10_PanicThenOver ==
    /\ d_over => d_panic
    /\ last_op.op = "tick" => (d_panic <=> RestingAboveTop)
    /\ last_op.op = "init" => ~d_panic /\ ~d_over
    /\ ColumnStands =>
           /\ d_panic <=> m_cursor.time >= PanicOnset
           /\ d_over <=> m_cursor.time >= PanicOnset + PANIC_TIME
    /\ d_over => m_cursor.time >= PANIC_TIME + 1

\* the game is over on the PANIC_TIME-th tick after the panic began
C10_Witness ==
    /\ ColumnStands
    /\ d_panic
    /\ d_over
    /\ m_cursor.time = PanicOnset + PANIC_TIME

----------------------------------------------------------------------------
(* The countdown of the occupants                                          *)

\* the states that end when their countdown arrives
TimedStates == {"SWAP_LEFT", "SWAP_RIGHT", "FALL", "LAND", "BREAK"}

\* remaining = time / speed is at least 1
RemainingAtLeastOne(o) == o.time >= o.speed

\* C11 as stated: after every completed tick every occupant that is not Dead
\* has remaining = time / speed >= 1, occupants that rest for many ticks included.
C11_RemainingAtLeastOne ==
    (last_op.op = "tick" /\ ~err) =>
        \A id \in DOMAIN phys : phys[id].state # "DEAD" => RemainingAtLeastOne(phys[id])

\* C11: a state starts with remaining >= 1 (the occupants of the start and
\* the two blocks of an accepted swap), the speed never drops below 1, and
\* after every completed tick every occupant in a timed state (swap, fall,
\* land, break) has a countdown of at least 1, while an occupant that rested
\* or was a preview through the tick has a countdown of at most 1 that
\* Physical::update keeps taking down.
C11_TimedStatesPositive ==
    ~err =>
        /\ \A id \in DOMAIN phys :
               /\ phys[id].speed >= 1
               /\ phys[id].state \in TimedStates => phys[id].time >= 1
               /\ phys[id].state \in {"REST", "PREVIEW"} => phys[id].time <= 1
        /\ last_op.op = "init" => \A id \in DOMAIN phys : RemainingAtLeastOne(phys[id])
        /\ (last_op.op = "swap" /\ last_op.accepted) =>
               \A id \in DOMAIN phys :
                   phys[id].state \in {"SWAP_LEFT", "SWAP_RIGHT"} /\ phys[id].time = SWAP_TIME
                       => RemainingAtLeastOne(phys[id])

\* after a tick a block falls with less than one tick's worth of countdown
\* left while another has rested through more than one tick
C11_Witness ==
    /\ last_op.op = "tick"
    /\ ~err
    /\ \E id \in DOMAIN phys :
           phys[id].state = "FALL" /\ phys[id].time >= 1 /\ ~RemainingAtLeastOne(phys[id])
    /\ \E id \in DOMAIN phys : phys[id].state = "REST" /\ phys[id].time < 0

----------------------------------------------------------------------------
(* SpecTwin: the game next to a second simulation that is either created   *)
(* on its own from the same seed or copied from the first (Pit's copy      *)
(* constructor), and that is fed the same ticks and swaps from then on.    *)

\* the scenarios that are played with a twin
TwinScenarios == {"chain", "dissolve", "garbage"}

\* the last tick at which the simulation may be copied
MaxCopyTick == 3

\* IColorSupplier::clone: the copy continues where the original stands
ColorSupplier_clone(calls) == calls

\* Pit::make_content_map that enters nothing
Pit_make_content_map_none(p) == [p EXCEPT !.m_content_map = <<>>]

\* Pit::make_content_map: fill_area of every occupant into the index as it
\* stands.  The function does not clear the index; its assert that the index
\* is empty is the caller's to keep (Pit_copy, Pit_assign).
RECURSIVE MakeContentMapFrom(_, _)
MakeContentMapFrom(p, ids) ==
    IF ids = <<>> \/ p.err THEN p
    ELSE MakeContentMapFrom(Pit_fill_area(p, Head(ids), p.phys[Head(ids)]), Tail(ids))
Pit_make_content_map(p) == MakeContentMapFrom(p, p.m_contents)

\* Pit::Pit(const Pit&): copy_contents, assign_basic, make_content_map
Pit_copy(rhs) ==
    Pit_make_content_map(
        [NewPit EXCEPT !.m_contents = rhs.m_contents,
                       !.phys = rhs.phys,
                       !.next_id = rhs.next_id,
                       !.m_cursor = rhs.m_cursor,
                       !.m_scroll = rhs.m_scroll,
                       !.m_peak = rhs.m_peak,
                       !.m_chain = rhs.m_chain,
                       !.m_recovery = rhs.m_recovery,
                       !.m_want_raise = rhs.m_want_raise,
                       !.m_raise = rhs.m_raise,
                       !.m_panic = rhs.m_panic])

\* a simulation: the Pit, its color supplier, the director, the last events
Sim ==
    [p |-> PitState, calls |-> color_calls, d_bottom |-> d_bottom, d_panic |-> d_panic,
     d_over |-> d_over, ev |-> events]

\* a simulation created on its own for a scenario
NewSim(name) ==
    LET built == Build(NewPit, 0, Scenarios[name].layout)
    IN  [p |-> built.p, calls |-> built.calls, d_bottom |-> 0, d_panic |-> FALSE,
         d_over |-> FALSE, ev |-> <<>>]

\* GameState's copy: the Pit is copied, the supplier cloned
Sim_copy(sim) ==
    [sim EXCEPT !.p = Pit_copy(sim.p), !.calls = ColorSupplier_clone(sim.calls)]

\* one tick of a simulation
Sim_directed(sim, r) ==
    [p |-> r.p, calls |-> r.calls, d_bottom |-> r.d_bottom, d_panic |-> r.d_panic,
     d_over |-> r.d_over, ev |-> r.ev]
Sim_updated(sim, p1) ==
    IF p1.err THEN [sim EXCEPT !.p = p1, !.ev = <<>>]
    ELSE Sim_directed(sim, Director_update(p1, sim.d_bottom, Seed, sim.calls,
                                           sim.d_panic, sim.d_over))
Sim_tick(sim) ==
    IF sim.p.err \/ sim.d_over THEN sim ELSE Sim_updated(sim, Pit_update(sim.p))

\* one swap command to a simulation
Sim_swapped(sim, r) ==
    [sim EXCEPT !.p = r.p, !.ev = Director_swap_events(r)]
Sim_swap(sim, coord) ==
    IF sim.p.err \/ sim.d_over THEN sim ELSE Sim_swapped(sim, Director_swap(sim.p, coord))

InitTwin ==
    /\ GameInit
    /\ screen = NoScreen
    /\ scen \in TwinScenarios
    /\ \/ twin = NoTwin
       \/ twin = [present |-> TRUE, how |-> "new", calls0 |-> NewSim(scen).calls,
                  sim |-> NewSim(scen)]

TwinTick ==
    /\ GameTick
    /\ twin' = IF twin.present THEN [twin EXCEPT !.sim = Sim_tick(@)] ELSE twin

TwinSwap ==
    \E m \in Scenarios[scen].moves :
        /\ SwapAt(m)
        /\ twin' = IF twin.present THEN [twin EXCEPT !.sim = Sim_swap(@, m.coord)] ELSE twin

\* the simulation is copied and the copy runs along from now on
TwinCopy ==
    /\ ~twin.present
    /\ ~err
    /\ m_cursor.time <= MaxCopyTick
    /\ twin' = [present |-> TRUE, how |-> "copy", calls0 |-> color_calls,
                sim |-> Sim_copy(Sim)]
    /\ last_op' = [op |-> "copy"]
    /\ UNCHANGED <<pitVars, dirVars, mbVars, scen, screen>>

NextTwin ==
    \/ TwinTick
    \/ TwinSwap
    \/ TwinCopy

SpecTwin == InitTwin /\ [][NextTwin]_vars

----------------------------------------------------------------------------
(* The chain counter and the Chain event                                   *)

\* the number of events of a type fired in the last step
CountFired(type) == Cardinality({i \in 1..Len(events) : events[i].type = type})

NoneChaining == \A id \in DOMAIN phys : ~phys[id].chaining
NoneBreaking == \A id \in DOMAIN phys : phys[id].state # "BREAK"

\* 1 if the last step fired a Match event of a chaining match, else 0
ChainingMatches == IF \E e \in Fired("Match") : e.chaining THEN 1 ELSE 0

\* C13: the pit's chain counter is never negative and grows by one with
\* every chaining match; a tick fires at most one Chain event, it fires one
\* when blocks die and leave no occupant chaining or breaking, it fires one
\* only if no occupant is chaining or breaking any more, the event's counter
\* is the number of chaining matches since the last Chain event (0 after a
\* single match), and the chain counter is zero after it.
C13_ChainCounter ==
    [][(IsTick /\ ~err') =>
          /\ m_chain >= 0
          /\ m_chain' >= 0
          /\ CountFired("Chain")' <= 1
          /\ IF CountFired("Chain")' = 1
             THEN /\ \A e \in Fired("Chain")' : e.counter = m_chain + ChainingMatches'
                  /\ m_chain' = 0
                  /\ NoneChaining'
                  /\ NoneBreaking'
             ELSE m_chain' = m_chain + ChainingMatches'
          /\ (CountFired("BlockDies")' >= 1 /\ NoneChaining' /\ NoneBreaking')
                 => CountFired("Chain")' = 1]_vars

\* the chain of GameEventTest.Chain ends: one follow-up match, counter 1
C13_Witness ==
    /\ scen = "chain"
    /\ last_op.op = "tick"
    /\ Fired("Chain") = {[type |-> "Chain", counter |-> 1]}
    /\ m_chain = 0
    /\ m_cursor.time = SWAP_TIME + BREAK_TIME + CeilDiv(ROW_HEIGHT, FALL_SPEED) + BREAK_TIME

\* a single match ends: counter 0
C13_SingleMatch ==
    /\ last_op.op = "tick"
    /\ Fired("Chain") = {[type |-> "Chain", counter |-> 0]}
    /\ CountFired("BlockDies") = 1

----------------------------------------------------------------------------
(* The Swap event                                                          *)

\* C14: a swap command that BlockDirector::swap accepts fires exactly one
\* Swap event, a command it rejects fires none, and a tick fires none; so
\* there are as many Swap events as accepted swaps.
C14_SwapEvents ==
    [][/\ (IsSwap /\ ~err') =>
              CountFired("Swap")' = (IF last_op'.accepted THEN 1 ELSE 0)
       /\ IsSwap => events' \in {<<>>, <<[type |-> "Swap"]>>}
       /\ IsTick => CountFired("Swap")' = 0]_vars

\* an accepted swap of an empty cell with the block to its right: one event
C14_Witness ==
    /\ last_op.op = "swap"
    /\ last_op.accepted
    /\ CountFired("Swap") = 1
    /\ \E id \in DOMAIN phys : phys[id].state = "SWAP_RIGHT" /\ phys[id].col = FAKE

\* ---------------------------------------------------------------------------
\* BlockDies events

\* the occupants which the step takes out of the pit
Gone == DOMAIN phys \ DOMAIN phys'

\* the blocks of a real colour which the step takes out of the pit
GoneBlocks == {id \in Gone : phys[id].kind = "Block" /\ phys[id].col # FAKE}

\* the placeholders of a swap which the step takes out of the pit
GoneFakes == {id \in Gone : phys[id].kind = "Block" /\ phys[id].col = FAKE}

\* C15: a tick fires one BlockDies event exactly when it ends the break of a
\* Block of a real colour, which happens BREAK_TIME ticks after the block
\* entered BREAK (it enters with BREAK_TIME on its timer, counts down by one
\* per tick and is taken out of the pit by the tick that finds the timer at
\* 1); a tick in which only FAKE placeholders die fires none, and a swap
\* fires none.
C15_BlockDiesEvents ==
    [][/\ IsTick =>
            /\ BreakEnters
            /\ BreakCountsDown
            /\ GoneBlocks = {id \in BreakEnding : phys[id].col # FAKE}
            /\ \A id \in GoneFakes : phys[id].state \in {"SWAP_LEFT", "SWAP_RIGHT"}
            /\ CountFired("BlockDies")' = IF GoneBlocks # {} THEN 1 ELSE 0
       /\ IsSwap => CountFired("BlockDies")' = 0]_vars

\* the tick that ended the break of the three matched blocks fired one event
C15_Witness ==
    /\ last_op.op = "tick"
    /\ scen = "chain"
    /\ m_cursor.time = SWAP_TIME + BREAK_TIME
    /\ CountFired("BlockDies") = 1
    /\ \A id \in DOMAIN phys : phys[id].state # "BREAK"

\* ---------------------------------------------------------------------------
\* GarbageDissolves events

\* the garbage next to a block the step matched, after the step
NextToMatch ==
    {g \in DOMAIN phys' :
        /\ phys'[g].kind = "Garbage"
        /\ \E b \in JustMatched' : Neighbours(phys'[b].rc) \cap Footprint(phys'[g]) # {}}

\* the garbage the step put into BREAK
GarbageEnters ==
    {g \in DOMAIN phys' :
        /\ phys'[g].kind = "Garbage"
        /\ phys'[g].state = "BREAK"
        /\ ~(g \in DOMAIN phys /\ phys[g].state = "BREAK")}

\* a breaking garbage stays in BREAK and counts down
GarbageCountsDown ==
    \A g \in DOMAIN phys :
        (phys[g].kind = "Garbage" /\ phys[g].state = "BREAK" /\ phys[g].time > 1)
        => /\ g \in DOMAIN phys'
           /\ phys'[g].state = "BREAK"
           /\ phys'[g].time = phys[g].time - 1

\* C16: a Garbage next to a block which a tick matched is in BREAK after that
\* tick; a Garbage enters BREAK only in the tick of a match, with
\* DISSOLVE_TIME on its timer, and counts down by one per tick; a tick fires
\* one GarbageDissolves event for each Garbage whose timer it finds at 1,
\* that is DISSOLVE_TIME ticks after the match, and no other; a swap fires
\* none.
C16_GarbageDissolves ==
    [][/\ IsTick =>
            /\ \A g \in NextToMatch : phys'[g].state = "BREAK"
            /\ \A g \in GarbageEnters :
                   /\ JustMatched' # {}
                   /\ phys'[g].time = DISSOLVE_TIME
                   /\ g \in DOMAIN phys /\ phys[g].state = "REST"
            /\ GarbageCountsDown
            /\ CountFired("GarbageDissolves")' = Cardinality(Dissolving)
       /\ IsSwap => CountFired("GarbageDissolves")' = 0]_vars

\* the garbage of the dissolve scenario has lost its only row DISSOLVE_TIME
\* ticks after the match under it, with one event
C16_Witness ==
    /\ last_op.op = "tick"
    /\ scen = "dissolve"
    /\ m_cursor.time = SWAP_TIME + DISSOLVE_TIME
    /\ CountFired("GarbageDissolves") = 1
    /\ \A id \in DOMAIN phys : phys[id].kind = "Block"

\* the tick of the match: the garbage on top of it is in BREAK, no event yet
C16_Touched ==
    /\ last_op.op = "tick"
    /\ scen = "dissolve"
    /\ m_cursor.time = SWAP_TIME
    /\ JustMatched # {}
    /\ CountFired("GarbageDissolves") = 0
    /\ \E g \in DOMAIN phys :
           /\ phys[g].kind = "Garbage"
           /\ phys[g].state = "BREAK"
           /\ phys[g].time = DISSOLVE_TIME

----------------------------------------------------------------------------
(* The cursor: Pit::cursor_move, CursorDirector::move and the tick          *)

MaxCursorTick == 201    \* SpecCursor: ticks of one run (top() rises twice)

\* enum class Dir
Dirs == {"NONE", "LEFT", "RIGHT", "UP", "DOWN"}

\* where a step in the direction leads
Step(rc, dir) ==
    CASE dir = "LEFT"  -> <<rc[1], rc[2] - 1>>
      [] dir = "RIGHT" -> <<rc[1], rc[2] + 1>>
      [] dir = "UP"    -> <<rc[1] - 1, rc[2]>>
      [] dir = "DOWN"  -> <<rc[1] + 1, rc[2]>>
      [] OTHER         -> rc

\* Pit::cursor_move without the tests of the bounds
Pit_cursor_move_free(p, dir) == [p EXCEPT !.m_cursor.rc = Step(@, dir)]

\* Pit::cursor_move
Pit_cursor_move(p, dir) ==
    LET rc == p.m_cursor.rc
        may == CASE dir = "LEFT"  -> rc[2] > 0
                 [] dir = "RIGHT" -> rc[2] < PIT_COLS - 2
                 [] dir = "UP"    -> rc[1] > Pit_top(p)
                 [] dir = "DOWN"  -> rc[1] < Pit_bottom(p)
                 [] OTHER         -> FALSE
    IN  IF dir = "NONE" THEN [p EXCEPT !.err = TRUE]
        ELSE IF may THEN [p EXCEPT !.m_cursor.rc = Step(rc, dir)]
        ELSE p

\* CursorDirector::move that reports Dir::NONE too
CursorDirector_move_any(p, dir) ==
    [p |-> IF dir = "NONE" THEN p ELSE Pit_cursor_move(p, dir),
     ev |-> <<[type |-> "CursorMoves"]>>]

\* CursorDirector::move
CursorDirector_move(p, dir) ==
    IF dir = "NONE" THEN [p |-> p, ev |-> <<>>]
    ELSE [p |-> Pit_cursor_move(p, dir), ev |-> <<[type |-> "CursorMoves"]>>]

InitCursor ==
    /\ StartPit(NewPit)
    /\ DirStart
    /\ MbStart
    /\ scen = "cursor"
    /\ screen = NoScreen
    /\ last_op = [op |-> "init"]
    /\ twin = NoTwin

\* the player's directional input
CursorMove ==
    \E dir \in Dirs :
        /\ ~err
        /\ ~d_over
        /\ \E r \in {CursorDirector_move(PitState, dir)} :
               /\ SetPit(r.p)
               /\ events' = r.ev
        /\ last_op' = [op |-> "move", dir |-> dir, from |-> m_cursor.rc]
        /\ UNCHANGED <<d_bottom, d_panic, d_over, color_calls, mbVars, scen, screen, twin>>

CursorTick == TickWithin(MaxCursorTick) /\ UNCHANGED twin

NextCursor ==
    \/ CursorMove
    \/ CursorTick

SpecCursor == InitCursor /\ [][NextCursor]_vars

\* the cursor is inside the accessible part of the pit
CursorInBounds ==
    /\ m_cursor.rc[2] \in 0..(PIT_COLS - 2)
    /\ m_cursor.rc[1] \in Pit_top(PitState)..Pit_bottom(PitState)

\* would the cell be a place for the cursor in the pit as it is
CursorMayBe(rc) ==
    /\ rc[2] \in 0..(PIT_COLS - 2)
    /\ rc[1] \in Pit_top(PitState)..Pit_bottom(PitState)

\* a directional move takes the cursor one cell further if that cell is in
\* bounds and leaves it where it is otherwise
MoveIsClamped ==
    \A dir \in Dirs \ {"NONE"} :
        (last_op'.op = "move" /\ last_op'.dir = dir)
        => m_cursor'.rc = IF CursorMayBe(Step(m_cursor.rc, dir))
                          THEN Step(m_cursor.rc, dir)
                          ELSE m_cursor.rc

\* a tick leaves the cursor alone unless top() has passed it, and then puts
\* it into the top row
TickPushesDown ==
    IsTick =>
        /\ m_cursor'.rc[2] = m_cursor.rc[2]
        /\ m_cursor'.rc[1] = IF m_cursor.rc[1] < Pit_top(PitState')
                             THEN Pit_top(PitState')
                             ELSE m_cursor.rc[1]

\* C17: after any sequence of cursor moves and ticks the cursor's column is
\* in [0, PIT_COLS-2] and its row in [top(), bottom()]; a move that would
\* leave this range leaves the cursor where it is, and a tick after which
\* top() is below the cursor's row moves the cursor down into the top row.
C17_CursorStaysInBounds ==
    /\ [](~err /\ CursorInBounds)
    /\ [][MoveIsClamped /\ TickPushesDown]_vars

\* the cursor is in the corner of the top row after the second rise of top(),
\* and the move up was refused
C17_Witness ==
    /\ last_op.op = "move"
    /\ last_op.dir = "UP"
    /\ m_cursor.rc = last_op.from
    /\ m_cursor.rc = <<Pit_top(PitState), PIT_COLS - 2>>
    /\ Pit_top(PitState) = 3 - PIT_ROWS

\* C18: CursorDirector::move fires exactly one CursorMoves event, and no
\* other event, for each move LEFT, RIGHT, UP or DOWN, and none for
\* Dir::NONE, which leaves the pit as it is; a tick fires no CursorMoves
\* event.
C18_CursorMovesEvents ==
    [][/\ last_op'.op = "move" =>
            /\ ~err'
            /\ events' = IF last_op'.dir = "NONE" THEN <<>>
                         ELSE <<[type |-> "CursorMoves"]>>
            /\ last_op'.dir = "NONE" => PitState' = PitState
       /\ IsTick => CountFired("CursorMoves")' = 0]_vars

\* the move to the right that the test makes first: one event
C18_Witness ==
    /\ last_op.op = "move"
    /\ last_op.dir = "RIGHT"
    /\ last_op.from = NewPit.m_cursor.rc
    /\ m_cursor.rc = RightOf(last_op.from)
    /\ CountFired("CursorMoves") = 1

\* Dir::NONE after a move: no event
C18_NoneIsSilent ==
    /\ last_op.op = "move"
    /\ last_op.dir = "NONE"
    /\ m_cursor.rc # NewPit.m_cursor.rc
    /\ events = <<>>

----------------------------------------------------------------------------
(* Pit::can_fall                                                            *)

\* the cells directly below the footprint of an occupant
Below(o) == {<<o.rc[1] + o.rows, c>> : c \in o.rc[2]..(o.rc[2] + o.columns - 1)}

\* the cell is a cell of the field: a column of the pit, not below bottom()
InField(p, rc) == rc[2] \in 0..(PIT_COLS - 1) /\ rc[1] <= Pit_bottom(p)

\* the occupants whose lowest row is the row bottom()
AtBottom(p) == {id \in DOMAIN p.phys : p.phys[id].rc[1] + p.phys[id].rows - 1 = Pit_bottom(p)}

\* C19: Pit::can_fall is true iff every cell directly below the occupant's
\* footprint is within the field's bounds and unoccupied; it is false for an
\* occupant whose lowest row is the field's bottom boundary.
C19_CanFallInBoundsAndFree ==
    ~err =>
        /\ \A id \in DOMAIN phys :
               Pit_can_fall(PitState, id)
               <=> \A cell \in Below(phys[id]) :
                       InField(PitState, cell) /\ Pit_at(PitState, cell) = NULL
        /\ \A id \in AtBottom(PitState) : ~Pit_can_fall(PitState, id)

\* what Pit::can_fall computes: the index has no entry for any of the cells
\* below the footprint, wherever they are
CanFallIffFree ==
    \A id \in DOMAIN phys :
        Pit_can_fall(PitState, id)
        <=> \A cell \in Below(phys[id]) : cell \notin DOMAIN m_content_map

\* an occupant in the row bottom() with nothing below it, which may fall
FallsOutOfField ==
    /\ ~err
    /\ \E id \in AtBottom(PitState) : Pit_can_fall(PitState, id)

----------------------------------------------------------------------------
(* The dead leave the pit in the tick of their death                        *)

\* the blocks that reach DEAD in the coming tick: those whose break ends and
\* the placeholders of a swap that ends
Dying ==
    BreakEnding \cup
    {id \in DOMAIN phys :
        /\ phys[id].kind = "Block"
        /\ phys[id].col = FAKE
        /\ phys[id].state \in {"SWAP_LEFT", "SWAP_RIGHT"}
        /\ phys[id].time = 1}

\* no occupant of the pit is dead
NoDead == \A id \in DOMAIN phys : phys[id].state # "DEAD"

\* the occupant is neither in the collection nor in the index after the step
Removed(id) ==
    /\ id \notin DOMAIN phys'
    /\ id \notin Range(m_contents')
    /\ CellsOf(m_content_map', id) = {}

\* an occupant began to fall into the cell in the step: the one that stood on
\* the cell, or a block out of the Garbage that stood on it and dissolved
FellInto(rc) ==
    LET above == Pit_at(PitState, <<rc[1] - 1, rc[2]>>)
        now == Pit_at(PitState', rc)
    IN  /\ above # NULL
        /\ now # NULL
        /\ phys'[now].state = "FALL"
        /\ phys'[now].time = ROW_HEIGHT
        /\ \/ now = above
           \/ now \notin DOMAIN phys /\ above \in Dissolving

\* the claim as it stands: the cells of the dead are empty after the tick
C20_DeadCellsEmpty ==
    [][IsTick => \A id \in Dying :
                     /\ Removed(id)
                     /\ Pit_at(PitState', phys[id].rc) = NULL]_vars

\* C20: an occupant that reaches DEAD in a tick is in neither the collection
\* nor the index after that tick, no occupant is DEAD between two ticks, and
\* the tick's Pit::update never meets a dead occupant; the cell of the dead
\* is empty after the tick unless the occupant that stood on it, or a block
\* out of a Garbage that stood on it and dissolved, began to fall in the same
\* tick and has taken the cell.
C20_DeadRemoved ==
    /\ [](~err /\ NoDead)
    /\ [][IsTick => \A id \in Dying :
                        /\ Removed(id)
                        /\ \/ Pit_at(PitState', phys[id].rc) = NULL
                           \/ FellInto(phys[id].rc)]_vars

\* the three matched blocks of the chain scenario are gone: two of their
\* cells are empty and the block that stood on the third is falling into it
C20_Witness ==
    /\ last_op.op = "tick"
    /\ scen = "chain"
    /\ CountFired("BlockDies") = 1
    /\ NoDead
    /\ \E c \in 0..(PIT_COLS - 1) : Pit_at(PitState, <<0, c>>) = NULL
    /\ \E c \in 0..(PIT_COLS - 1) :
           LET id == Pit_at(PitState, <<0, c>>)
           IN  id # NULL /\ phys[id].state = "FALL" /\ phys[id].time = ROW_HEIGHT

----------------------------------------------------------------------------
(* The panic countdown                                                      *)

\* C21: a tick after which no resting occupant lies above the top row does
\* not lower the panic countdown; a tick lowers it only if the field is full
\* after it, and then by one; a swap leaves it alone.
C21_PanicCountdown ==
    [][/\ IsTick =>
            /\ ~RestingAboveTop' => m_panic' >= m_panic
            /\ m_panic' < m_panic => RestingAboveTop' /\ m_panic' = m_panic - 1
       /\ IsSwap => m_panic' = m_panic]_vars

\* the countdown has run for some ticks and stands still now that the swap
\* has taken the top off the column
C21_Witness ==
    /\ last_op.op = "tick"
    /\ scen = "relief"
    /\ ~RestingAboveTop
    /\ ~d_panic
    /\ m_panic \in 1..(PANIC_TIME - 2)

----------------------------------------------------------------------------
(* BlockDirector::swap into an empty cell                                   *)

\* the cell holds a Block that Block::is_swappable lets move
HoldsSwappable(rc) ==
    LET id == Pit_block_at(PitState, rc)
    IN  id # NULL /\ Block_is_swappable(phys[id])

\* the block at from moves to the empty cell to, and a placeholder that did
\* not exist before takes the cell it left
MovesIntoEmpty(from, to) ==
    LET b == Pit_block_at(PitState, from)
        fake == Pit_at(PitState', from)
    IN  /\ phys'[b].rc = to
        /\ Pit_at(PitState', to) = b
        /\ fake # NULL
        /\ fake \notin DOMAIN phys
        /\ phys'[fake].kind = "Block"
        /\ phys'[fake].col = FAKE
        /\ phys'[fake].rc = from
        /\ phys'[fake].col \notin Palette
        /\ DOMAIN phys' = DOMAIN phys \cup {fake}

\* C22: BlockDirector::swap at a cell where exactly one of the cell and its
\* right-hand neighbour is empty and the other holds a swappable Block is
\* accepted; after the call the Block is at the formerly empty cell, in the
\* index too, and a new Block of the placeholder colour FAKE, which no match
\* takes, is in the cell it left.
C22_SwapIntoEmpty ==
    [][IsSwap =>
        LET lrc == last_op'.coord
            rrc == RightOf(lrc)
        IN  /\ (Pit_at(PitState, lrc) = NULL /\ HoldsSwappable(rrc))
               => last_op'.accepted /\ ~err' /\ MovesIntoEmpty(rrc, lrc)
            /\ (Pit_at(PitState, rrc) = NULL /\ HoldsSwappable(lrc))
               => last_op'.accepted /\ ~err' /\ MovesIntoEmpty(lrc, rrc)]_vars

\* a block has been swapped to the right into an empty cell; the placeholder
\* it left behind is moving left
C22_Witness ==
    /\ last_op.op = "swap"
    /\ last_op.accepted
    /\ LET there == Pit_block_at(PitState, RightOf(last_op.coord))
           left == Pit_block_at(PitState, last_op.coord)
       IN  /\ there # NULL /\ left # NULL
           /\ phys[there].col \in Palette
           /\ phys[there].state = "SWAP_RIGHT"
           /\ phys[left].col = FAKE
           /\ phys[left].state = "SWAP_LEFT"

----------------------------------------------------------------------------
(* Pit::swap on blocks the index does not know                              *)

\* C23: Pit::swap with a Block that the index does not record at the
\* Block's coordinate (a Block foreign to the Pit, at a free cell or at the
\* cell of an occupant) throws, and leaves the coordinates and the chaining
\* flags of both Blocks, the collection and every index entry as they were;
\* Pit::swap on two Blocks of the Pit, which the index records, throws
\* nothing.
C23_SwapForeignThrows ==
    [][/\ last_op'.op = "swap_foreign" =>
            /\ Pit_at(PitState, last_op'.foreign.rc) # next_id
            /\ err'
            /\ UNCHANGED <<m_contents, phys, m_content_map, m_peak, next_id>>
            /\ last_op'.after = last_op'.foreign
       /\ last_op'.op = "swap" => ~err']_vars

\* the swap of a resting block of the Pit with a chaining foreign Block that
\* claims the cell of another occupant has thrown
C23_Witness ==
    /\ last_op.op = "swap_foreign"
    /\ err
    /\ last_op.foreign.chaining
    /\ ~phys[last_op.own].chaining
    /\ phys[last_op.own].rc # last_op.foreign.rc
    /\ Pit_at(PitState, last_op.foreign.rc) \notin {NULL, last_op.own}

----------------------------------------------------------------------------
(* The blocks BlockDirector::swap accepts                                   *)

\* the occupants of the two cells of the swap, before it
SwapCells == {last_op'.coord, RightOf(last_op'.coord)}
SwapOccupants == {Pit_at(PitState, rc) : rc \in SwapCells} \ {NULL}

\* C24 as stated: an accepted swap finds in each non-empty cell a Block that
\* is matchable (REST or LAND) and swappable; a Block that is falling or in
\* the middle of a swap is not accepted.
C24_AcceptsMatchableOnly ==
    [][(IsSwap /\ last_op'.accepted)
       => \A id \in SwapOccupants :
              /\ phys[id].kind = "Block"
              /\ Block_is_matchable(phys[id])
              /\ Block_is_swappable(phys[id])]_vars

\* C24: BlockDirector::swap returns true only when each non-empty one of the
\* two cells holds a Block that Block::is_swappable admits, that is a Block
\* in REST, FALL, LAND, SWAP_LEFT or SWAP_RIGHT: never a Garbage and never a
\* Block in PREVIEW, BREAK or DEAD; and a swap whose cells hold such blocks
\* only, at least one, is accepted, a falling or swapping block included.
C24_AcceptsSwappableOnly ==
    [][IsSwap =>
        /\ last_op'.was = <<StateAt(PitState, last_op'.coord),
                            StateAt(PitState, RightOf(last_op'.coord))>>
        /\ last_op'.accepted
           <=> /\ SwapOccupants # {}
               /\ \A id \in SwapOccupants :
                      /\ phys[id].kind = "Block"
                      /\ phys[id].state \in {"REST", "FALL", "LAND", "SWAP_LEFT", "SWAP_RIGHT"}]_vars

\* a swap of a block in the middle of its fall was accepted
C24_Witness ==
    /\ last_op.op = "swap"
    /\ last_op.accepted
    /\ "FALL" \in Range(last_op.was)
    /\ \A rc \in {last_op.coord, RightOf(last_op.coord)} :
           /\ Pit_block_at(PitState, rc) # NULL
           /\ phys[Pit_block_at(PitState, rc)].state \in {"SWAP_LEFT", "SWAP_RIGHT"}
           /\ phys[Pit_block_at(PitState, rc)].time = SWAP_TIME

\* a swap of a block in the middle of a swap was accepted
C24_MidSwap ==
    /\ last_op.op = "swap"
    /\ last_op.accepted
    /\ Range(last_op.was) \cap {"SWAP_LEFT", "SWAP_RIGHT"} # {}

----------------------------------------------------------------------------
(* The course of a swap                                                     *)

SwapStates == {"SWAP_LEFT", "SWAP_RIGHT"}

\* the block in the cell, after the step, has just begun to move in state st
BeginsSwap(rc, st) ==
    LET id == Pit_block_at(PitState', rc)
    IN  /\ id # NULL
        /\ phys'[id].rc = rc
        /\ phys'[id].state = st
        /\ phys'[id].time = SWAP_TIME
        /\ phys'[id].speed = 1

\* the block that was in the cell from is in the cell to after the step
Traded(from, to) ==
    Pit_at(PitState, from) # NULL => Pit_at(PitState', to) = Pit_at(PitState, from)

\* a tick keeps a swapping block in its state and cell while its time is
\* above 1, and takes it out of the swap state when its time is 1
SwapRunsItsTime ==
    \A id \in DOMAIN phys :
        phys[id].state \in SwapStates =>
            IF phys[id].time > 1
            THEN /\ id \in DOMAIN phys'
                 /\ phys'[id].state = phys[id].state
                 /\ phys'[id].rc = phys[id].rc
                 /\ phys'[id].time = phys[id].time - 1
                 /\ phys'[id].speed = 1
            ELSE id \in DOMAIN phys' => phys'[id].state \notin SwapStates

\* C25: an accepted BlockDirector::swap exchanges the coordinates at once:
\* after the call the block that moved to the left cell is in SWAP_LEFT and
\* the block that moved to the right cell in SWAP_RIGHT, both with
\* remaining SWAP_TIME; every tick keeps a swapping block in its state and
\* cell and lowers its remaining by one while that is above 1, and the tick
\* that finds it at 1, the SWAP_TIME-th, takes it out of the swap state.
C25_SwapCourse ==
    [][/\ (IsSwap /\ last_op'.accepted) =>
            /\ BeginsSwap(last_op'.coord, "SWAP_LEFT")
            /\ BeginsSwap(RightOf(last_op'.coord), "SWAP_RIGHT")
            /\ Traded(last_op'.coord, RightOf(last_op'.coord))
            /\ Traded(RightOf(last_op'.coord), last_op'.coord)
       /\ IsTick => SwapRunsItsTime]_vars

\* the red block of the horizontal scenario has finished its swap to the
\* left on the SWAP_TIME-th tick and falls into the gap below
C25_Witness ==
    /\ last_op.op = "tick"
    /\ scen = "horizontal"
    /\ m_cursor.time = SWAP_TIME
    /\ LET id == Pit_block_at(PitState, <<-3, 1>>)
       IN  /\ id # NULL
           /\ phys[id].col = RED
           /\ phys[id].state = "FALL"
           /\ phys[id].time = ROW_HEIGHT

\* one tick earlier it is still in SWAP_LEFT in the cell of the swap
C25_StillSwapping ==
    /\ last_op.op = "tick"
    /\ scen = "horizontal"
    /\ m_cursor.time = SWAP_TIME - 1
    /\ LET id == Pit_block_at(PitState, <<-4, 1>>)
       IN  id # NULL /\ phys[id].col = RED /\ phys[id].state = "SWAP_LEFT" /\ phys[id].time = 1

----------------------------------------------------------------------------
(* SpecArrive: one occupant, put into a state with a time and a speed, and  *)
(* updated tick by tick without being touched again                        *)

MaxArriveTime == 12     \* SpecArrive: the times an occupant is armed with
MaxArriveSpeed == 5     \* SpecArrive: the speeds an occupant is armed with
MaxArriveUpdates == MaxArriveTime + 2

\* the states in which Physical::update only counts down
ArriveStates == {"REST", "FALL", "SWAP_LEFT", "SWAP_RIGHT"}

\* the pairs of time and speed: the small ones and the one-row fall
ArriveTimes ==
    ((1..MaxArriveTime) \X (1..MaxArriveSpeed)) \cup {<<ROW_HEIGHT, FALL_SPEED>>}

\* a Pit with one block, armed by Physical::set_state
ArmedPit(st, time, speed) ==
    LET p == Pit_spawn_block(NewPit, BLUE, <<0, 0>>, "REST")
    IN  [p EXCEPT !.phys[1] = set_state(@, st, time, speed)]

InitArrive ==
    \E st \in ArriveStates, ts \in ArriveTimes :
        /\ StartPit(ArmedPit(st, ts[1], ts[2]))
        /\ DirStart
        /\ MbStart
        /\ scen = "arrive"
        /\ screen = NoScreen
        /\ last_op = [op |-> "set_state", time |-> ts[1], speed |-> ts[2]]
        /\ twin = NoTwin

\* Pit::update: Physical::update on the occupant
ArriveUpdate ==
    /\ ~err
    /\ m_cursor.time < MaxArriveUpdates
    /\ \E p \in {Pit_update(PitState)} : SetPit(p)
    /\ UNCHANGED <<dirVars, mbVars, scen, screen, last_op, twin>>

NextArrive == ArriveUpdate

SpecArrive == InitArrive /\ [][NextArrive]_vars

\* C26: an occupant put into a state with time T >= 1 and speed S >= 1 and
\* left alone is arriving after the update number ceil(T / S) and after no
\* other update, nor before the first; its time is then T minus that many
\* speeds, which lies in -S+1..0.
C26_ArrivesOnce ==
    LET o == phys[1]
        T == last_op.time
        S == last_op.speed
    IN  /\ ~err
        /\ o.time = T - m_cursor.time * S
        /\ is_arriving(o) <=> m_cursor.time = CeilDiv(T, S)
        /\ is_arriving(o) => o.time \in (1 - S)..0

\* the one-row fall arrives on update ceil(ROW_HEIGHT / FALL_SPEED)
C26_Witness ==
    /\ last_op.time = ROW_HEIGHT
    /\ last_op.speed = FALL_SPEED
    /\ phys[1].state = "FALL"
    /\ m_cursor.time = CeilDiv(ROW_HEIGHT, FALL_SPEED)
    /\ ROW_HEIGHT % FALL_SPEED # 0
    /\ is_arriving(phys[1])

\* an update after the arrival
C26_Passed ==
    /\ m_cursor.time = CeilDiv(last_op.time, last_op.speed) + 1
    /\ phys[1].time <= 0
    /\ ~is_arriving(phys[1])

----------------------------------------------------------------------------
(* What is left of a Garbage after a row has dissolved                      *)

\* C27 as stated: a Garbage whose BREAK timer elapses and which has rows
\* left stays in BREAK with its timer armed again, and one without rows
\* left is gone.
C27_StaysBreaking ==
    [][IsTick =>
        \A g \in Dissolving :
            IF phys[g].rows > 1
            THEN /\ g \in DOMAIN phys'
                 /\ phys'[g].state = "BREAK"
                 /\ phys'[g].time = DISSOLVE_TIME
            ELSE Removed(g)]_vars

\* C27: a Garbage whose BREAK timer elapses loses one row; if rows remain it
\* leaves BREAK in that tick: it rests in its place, or, left without
\* support, falls one row down; it is in BREAK after the tick only if a
\* match of that same tick touches it anew; it is never DEAD; a Garbage with
\* one row is taken out of the collection and the index by the shrink itself.
C27_RestsAfterShrink ==
    /\ [](\A g \in DOMAIN phys : phys[g].kind = "Garbage" => phys[g].state # "DEAD")
    /\ [][IsTick =>
            \A g \in Dissolving :
                IF phys[g].rows > 1
                THEN /\ g \in DOMAIN phys'
                     /\ phys'[g].rows = phys[g].rows - 1
                     /\ \/ /\ phys'[g].state = "REST"
                           /\ phys'[g].rc = phys[g].rc
                        \/ /\ phys'[g].state = "FALL"
                           /\ phys'[g].time = ROW_HEIGHT
                           /\ phys'[g].rc = <<phys[g].rc[1] + 1, phys[g].rc[2]>>
                        \/ /\ phys'[g].state = "BREAK"
                           /\ phys'[g].time = DISSOLVE_TIME
                           /\ phys'[g].rc = phys[g].rc
                           /\ g \in NextToMatch
                           /\ Fired("Match")' # {}
                ELSE Removed(g)]_vars

\* the Garbage of the shrink scenario has lost its lower row and falls
C27_Witness ==
    /\ last_op.op = "tick"
    /\ scen = "shrink"
    /\ CountFired("GarbageDissolves") = 1
    /\ \E g \in DOMAIN phys :
           /\ phys[g].kind = "Garbage"
           /\ phys[g].rows = 1
           /\ phys[g].state = "FALL"
           /\ phys[g].rc = <<-5, 0>>

\* the Garbage of the garbage scenario has lost its lower row and rests
C27_Rests ==
    /\ last_op.op = "tick"
    /\ scen = "garbage"
    /\ CountFired("GarbageDissolves") = 1
    /\ \E g \in DOMAIN phys :
           /\ phys[g].kind = "Garbage"
           /\ phys[g].rows = 1
           /\ phys[g].state = "REST"


\* the blocks out of the dissolved row matched and touched the Garbage anew
C27_TouchedAnew ==
    /\ last_op.op = "tick"
    /\ CountFired("GarbageDissolves") = 1
    /\ \E g \in DOMAIN phys :
           /\ phys[g].kind = "Garbage"
           /\ phys[g].rows = 1
           /\ phys[g].state = "BREAK"
           /\ phys[g].time = DISSOLVE_TIME

----------------------------------------------------------------------------
(* The blocks a dissolved Garbage row reveals                               *)

\* the cell under a cell
CellBelow(rc) == <<rc[1] + 1, rc[2]>>

\* the non-preview blocks that the step created
Revealed == {b \in DOMAIN phys' \ DOMAIN phys : phys'[b].state # "PREVIEW"}

\* the cells of the lowest rows of the garbage whose timer elapses
Vacated == UNION {LowRow(phys[g]) : g \in Dissolving}

\* the cell holds, after the step, something other than the given occupant
HeldUp(rc, id) == rc \in DOMAIN m_content_map' /\ m_content_map'[rc] # id

\* the revealed block of the colour stays in the cell, on a support, or has
\* begun to fall into the cell below, which nothing else holds any more
RevealedAt(b, cell, colour) ==
    /\ phys'[b].kind = "Block"
    /\ phys'[b].col = colour
    /\ \/ /\ phys'[b].rc = cell
          /\ phys'[b].state \in {"REST", "BREAK"}
          /\ m_content_map'[cell] = b
          /\ HeldUp(CellBelow(cell), b)
       \/ /\ phys'[b].rc = CellBelow(cell)
          /\ phys'[b].state = "FALL"
          /\ phys'[b].time = ROW_HEIGHT
          /\ m_content_map'[CellBelow(cell)] = b
          /\ cell \notin DOMAIN m_content_map' \/ m_content_map'[cell] # b

\* a falling block moves on one row at a time and lands only on a support
FallsToSupport ==
    \A b \in DOMAIN phys \cap DOMAIN phys' :
        (phys[b].kind = "Block" /\ phys[b].state = "FALL")
        => /\ phys'[b].rc \in {phys[b].rc, CellBelow(phys[b].rc)}
           /\ phys'[b].state = "LAND"
              => /\ phys'[b].rc = phys[b].rc
                 /\ HeldUp(CellBelow(phys[b].rc), b)

\* C28: the tick in which a Garbage row dissolves creates one Block per cell
\* of the row, of the loot colours in order, and no other; a revealed Block
\* without support begins to fall into the cell below, one with support
\* stays in its cell; a falling Block lands only on a support; a shrunken
\* Garbage falls iff every Block it revealed falls.
C28_LootRevealed ==
    [][IsTick =>
        /\ FallsToSupport
        /\ Cardinality(Revealed) = Cardinality(Vacated)
        /\ \A g \in Dissolving :
               /\ \A i \in 0..(phys[g].columns - 1) :
                      \E b \in Revealed :
                          RevealedAt(b, <<phys[g].rc[1] + phys[g].rows - 1, phys[g].rc[2] + i>>,
                                     phys[g].loot[i + 1])
               /\ g \in DOMAIN phys'
                  => (phys'[g].state = "FALL"
                      <=> \A b \in Revealed : phys'[b].state = "FALL")]_vars

\* DissolveGarbage: the row has dissolved; of the revealed blocks one fell
\* and one stays
C28_Witness ==
    /\ last_op.op = "tick"
    /\ scen = "garbage"
    /\ CountFired("GarbageDissolves") = 1
    /\ \E b, c \in DOMAIN phys :
           /\ phys[b].rc = <<-3, 0>> /\ phys[b].state = "FALL" /\ phys[b].time = ROW_HEIGHT
           /\ phys[c].rc = <<-4, 4>> /\ phys[c].state = "REST" /\ TAG_HOT \in phys[c].tag

----------------------------------------------------------------------------
(* The chaining mark of the blocks a Garbage row reveals                    *)

\* C29: of the Blocks that a dissolved Garbage row reveals, those that begin
\* to fall are chaining and stay so from tick to tick while they fall; one
\* that stays at rest in its cell, on a support and out of any match, is not
\* chaining.
C29_RevealedChaining ==
    [][IsTick =>
        /\ \A b \in Revealed :
               /\ phys'[b].state = "FALL" => phys'[b].chaining
               /\ phys'[b].state = "REST" => ~phys'[b].chaining
        /\ \A b \in DOMAIN phys \cap DOMAIN phys' :
               (phys[b].kind = "Block" /\ phys[b].state = "FALL" /\ phys'[b].state = "FALL")
               => phys'[b].chaining = phys[b].chaining]_vars

\* ChainingGarbageBlock: the row has dissolved; the blocks of columns 0, 1, 3
\* and 5 fall and are chaining, those of columns 2 and 4 stay and are not
C29_Witness ==
    /\ last_op.op = "tick"
    /\ scen = "garbage"
    /\ m_cursor.time = SWAP_TIME + DISSOLVE_TIME
    /\ CountFired("GarbageDissolves") = 1
    /\ \A c \in {0, 1, 3, 5} :
           \E b \in DOMAIN phys :
               phys[b].rc = <<-3, c>> /\ phys[b].state = "FALL" /\ phys[b].chaining
    /\ \A c \in {2, 4} :
           \E b \in DOMAIN phys :
               phys[b].rc = <<-4, c>> /\ phys[b].state = "REST" /\ ~phys[b].chaining

\* a revealed block that went straight into a match
C29_RevealedMatched ==
    /\ last_op.op = "tick"
    /\ CountFired("GarbageDissolves") = 1
    /\ \E b \in DOMAIN phys :
           /\ phys[b].state = "BREAK"
           /\ phys[b].time = BREAK_TIME
           /\ \E g \in DOMAIN phys :
                  phys[g].kind = "Garbage" /\ phys[b].rc \in Below(phys[g])

----------------------------------------------------------------------------
(* A stack that loses its support                                          *)

\* the occupant was not falling and the step set it falling, one row down
StartsFalling(id) ==
    /\ id \in DOMAIN phys \cap DOMAIN phys'
    /\ phys[id].state # "FALL"
    /\ phys'[id].state = "FALL"
    /\ phys'[id].time = ROW_HEIGHT
    /\ phys'[id].rc = CellBelow(phys[id].rc)
    /\ CellsOf(m_content_map', id) = Footprint(phys'[id])

\* the occupants that stand directly on the occupant
StackedOn(id) ==
    {m_content_map[rc] : rc \in {<<phys[id].rc[1] - 1, c>> :
                                    c \in phys[id].rc[2]..(phys[id].rc[2] + phys[id].columns - 1)}
                                \cap DOMAIN m_content_map}

\* the step took away whatever held the cell: it was empty, or its occupant
\* began to fall or left the pit
GaveWay(rc) ==
    \/ rc \notin DOMAIN m_content_map
    \/ StartsFalling(m_content_map[rc])
    \/ m_content_map[rc] \notin DOMAIN phys'

\* C30: in a tick in which an occupant begins to fall, every Block at rest or
\* landing that stands directly on it begins to fall in the same tick, one
\* row down, and a Garbage at rest on it does so iff nothing else holds it.
C30_StackFallsTogether ==
    [][IsTick =>
        \A a \in DOMAIN phys :
            StartsFalling(a)
            => \A b \in StackedOn(a) :
                   phys[b].state \in {"REST", "LAND"}
                   => IF phys[b].kind = "Block"
                      THEN StartsFalling(b)
                      ELSE StartsFalling(b) <=> \A rc \in Below(phys[b]) : GaveWay(rc)]_vars

\* FallAfterSwap: the red block arrived from its swap over an empty cell and
\* falls; the green block, which had landed on it a tick earlier, falls too
C30_Witness ==
    /\ last_op.op = "tick"
    /\ scen = "swapfall"
    /\ m_cursor.time = SWAP_TIME + 1
    /\ \E red, green \in DOMAIN phys :
           /\ phys[red].col = RED /\ phys[red].rc = <<-3, 5>> /\ phys[red].state = "FALL"
           /\ phys[green].col = GREEN /\ phys[green].rc = <<-4, 5>>
           /\ phys[green].state = "FALL"

\* FallAfterSwap, one tick earlier: the green block has landed on the red
\* block, whose swap has one tick to go
C30_Landed ==
    /\ scen = "swapfall"
    /\ m_cursor.time = SWAP_TIME
    /\ \E red, green \in DOMAIN phys :
           /\ phys[red].col = RED /\ phys[red].rc = <<-4, 5>>
           /\ phys[red].state = "SWAP_RIGHT" /\ phys[red].time = 1
           /\ phys[green].col = GREEN /\ phys[green].rc = <<-5, 5>>
           /\ phys[green].state = "LAND"

\* the red block under the Garbage arrived from its swap over an empty cell
\* and falls; the Garbage stays, held by the blue block
C30_GarbageHeld ==
    /\ last_op.op = "tick"
    /\ scen = "ledge"
    /\ \E red, g \in DOMAIN phys :
           /\ phys[red].col = RED /\ phys[red].rc = <<-3, 5>>
           /\ phys[red].state = "FALL" /\ phys[red].time = ROW_HEIGHT
           /\ phys[g].kind = "Garbage" /\ phys[g].rc = <<-5, 3>> /\ phys[g].state = "REST"

\* C30 as stated: in a tick in which an occupant begins to fall, every
\* occupant at rest or landing that stands directly on it, Block or Garbage,
\* begins to fall in the same tick, one row down.
C30_EveryOccupantFalls ==
    [][IsTick =>
        \A a \in DOMAIN phys :
            StartsFalling(a)
            => \A b \in StackedOn(a) :
                   phys[b].state \in {"REST", "LAND"} => StartsFalling(b)]_vars

----------------------------------------------------------------------------
(* Which blocks a match takes                                              *)

\* the countdown of the occupant ends in the coming tick
Arrives(o) == o.time > 0 /\ o.time - o.speed <= 0

\* the block is matchable when the tick looks for matches: it was at rest or
\* landing already, or its fall or swap ends in this tick
MatchableInTick(o) ==
    \/ o.state \in {"REST", "LAND"}
    \/ o.state \in {"FALL", "SWAP_LEFT", "SWAP_RIGHT"} /\ Arrives(o)

\* C31: a Block that a tick puts into BREAK through a match has a colour
\* other than the placeholder's, is at rest or landing when the tick looks
\* for matches, and stays in its cell in that tick; a placeholder is never in
\* BREAK, and a Block that is in PREVIEW, in BREAK, or in the middle of a
\* fall or a swap is not taken by a match.
C31_MatchedAreMatchable ==
    /\ [](\A b \in DOMAIN phys : phys[b].col = FAKE /\ phys[b].kind = "Block"
                                   => phys[b].state # "BREAK")
    /\ [][IsTick =>
            \A b \in JustMatched' :
                /\ phys'[b].col # FAKE
                /\ m_content_map'[phys'[b].rc] = b
                /\ IF b \in DOMAIN phys
                   THEN /\ phys'[b].rc = phys[b].rc
                        /\ MatchableInTick(phys[b])
                   ELSE b \in Revealed /\ phys'[b].rc \in Vacated]_vars

\* a match took a block that landed from its fall in this very tick
C31_Witness ==
    /\ last_op.op = "tick"
    /\ Fired("Match") # {}
    /\ \E b \in JustMatched : phys[b].chaining

\* a match left out a block of the matched colour next to it, which is in the
\* middle of a fall or a swap or in PREVIEW
C31_LeftOut ==
    /\ last_op.op = "tick"
    /\ \E b \in JustMatched :
           \E c \in DOMAIN phys :
               /\ phys[c].rc \in Neighbours(phys[b].rc)
               /\ phys[c].col = phys[b].col
               /\ phys[c].state \in {"FALL", "SWAP_LEFT", "SWAP_RIGHT", "PREVIEW"}

----------------------------------------------------------------------------
(* Pit::fall                                                               *)

\* the occupant that the last Pit::fall was called for
Fallen == last_op'.id

\* the step left every occupant but the given one as it was, in the
\* collection and in the index
OthersUntouched(id) ==
    /\ DOMAIN phys' = DOMAIN phys
    /\ m_contents' = m_contents
    /\ \A other \in DOMAIN phys \ {id} :
           /\ phys'[other] = phys[other]
           /\ CellsOf(m_content_map', other) = CellsOf(m_content_map, other)

\* C32: Pit::fall of an occupant that can fall moves its coordinate and all
\* its index entries one row down and changes nothing else about it or about
\* any other occupant; Pit::fall of a Block over an occupied cell raises the
\* invariant error and leaves collection and index as they were.
C32_FallMovesFootprint ==
    [][last_op'.op = "fall" =>
        /\ Pit_can_fall(PitState, Fallen)
           => /\ ~err'
              /\ phys'[Fallen] = [phys[Fallen] EXCEPT !.rc = <<@[1] + 1, @[2]>>]
              /\ CellsOf(m_content_map', Fallen)
                     = {<<rc[1] + 1, rc[2]>> : rc \in Footprint(phys[Fallen])}
              /\ OthersUntouched(Fallen)
        /\ (phys[Fallen].kind = "Block" /\ ~Pit_can_fall(PitState, Fallen))
           => /\ err'
              /\ phys' = phys
              /\ m_content_map' = m_content_map
              /\ m_contents' = m_contents]_vars

\* a Garbage two cells wide fell one row, next to another occupant
C32_Witness ==
    /\ last_op.op = "fall"
    /\ ~err
    /\ Cardinality(DOMAIN phys) = 2
    /\ phys[last_op.id].kind = "Garbage"
    /\ phys[last_op.id].columns > 1

\* a Block was made to fall onto an occupied cell
C32_Refused ==
    /\ last_op.op = "fall"
    /\ err
    /\ phys[last_op.id].kind = "Block"
    /\ Pit_at(PitState, <<phys[last_op.id].rc[1] + 1, phys[last_op.id].rc[2]>>) # NULL

----------------------------------------------------------------------------
(* The cached peak                                                         *)

\* the topmost row of the cells that hold one of the occupants
TopRow(ids) == Min({rc[1] : rc \in {cell \in DOMAIN m_content_map : m_content_map[cell] \in ids}})

\* the occupants at rest
Resting == {id \in DOMAIN phys : phys[id].state = "REST"}

RowCells(map, r) == {cell \in DOMAIN map : cell[1] = r}

\* the step created an occupant whose topmost row is the new peak
SpawnedAtPeak ==
    /\ last_op'.op \in {"spawn_block", "spawn_garbage"}
    /\ \E id \in DOMAIN phys' \ DOMAIN phys : phys'[id].rc[1] = m_peak'

\* the step emptied the row of the peak, and the peak moved down over empty
\* rows only
PeakRowEmptied ==
    /\ RowCells(m_content_map, m_peak) # {}
    /\ \A r \in m_peak..(m_peak' - 1) : RowCells(m_content_map', r) = {}

\* C34: after any sequence of spawn, fall, swap, shrink and remove_dead that
\* raised no invariant error, no indexed cell lies above the peak; the peak
\* moves up only in a spawn, to the row of the new occupant, and moves down
\* only in a step that empties its row, and then over empty rows only.
C34_NothingAbovePeak ==
    /\ [](~err => \A cell \in DOMAIN m_content_map : cell[1] >= m_peak)
    /\ [][~err' =>
            /\ m_peak' < m_peak => SpawnedAtPeak
            /\ m_peak' > m_peak => PeakRowEmptied]_vars

\* the topmost occupant fell out of the peak row, and the peak followed it
C34_Witness ==
    /\ ~err
    /\ last_op.op = "fall"
    /\ Cardinality(DOMAIN phys) = 2
    /\ phys[last_op.id].rc[1] = m_peak
    /\ RowCells(m_content_map, m_peak - 1) = {}

\* an occupant was spawned above the peak
C34_Raised ==
    /\ ~err
    /\ last_op.op = "spawn_garbage"
    /\ Cardinality(DOMAIN phys) = 2
    /\ \E id \in DOMAIN phys : phys[id].kind = "Block" /\ phys[id].rc[1] > m_peak

----------------------------------------------------------------------------
(* Tags live for one tick                                                  *)

\* what the next tick makes of a pit: Pit::update, then BlockDirector::update
TickOf(p) == Director_update(Pit_update(p), d_bottom, Seed, color_calls, d_panic, d_over)

\* the pit as the passes of the next tick find it
AtPasses == NewUpdate(Pit_update(PitState), d_bottom, Seed, color_calls).p

\* an occupant made by the step just taken: laid out before the first tick,
\* or a placeholder that a swap put into an empty cell
FreshlyMade ==
    {id \in DOMAIN phys :
        \/ last_op.op = "init"
        \/ /\ last_op.op = "swap"
           /\ phys[id].col = FAKE /\ phys[id].kind = "Block"
           /\ phys[id].time = SWAP_TIME}

\* C35: when the passes of a tick begin no occupant carries a tag, so that
\* the tick makes the same of the pit whatever tags the tick before left on
\* it; an occupant just made carries no tag.
C35_TagsLiveOneTick ==
    /\ (~err /\ ~d_over)
       => /\ \A id \in DOMAIN AtPasses.phys : AtPasses.phys[id].tag = {}
          /\ TickOf(PitState) = TickOf([PitState EXCEPT
                                          !.phys = [id \in DOMAIN phys |->
                                                       [phys[id] EXCEPT !.tag = {}]]])
    /\ \A id \in FreshlyMade : phys[id].tag = {}

\* a tick left tags of all three kinds on the occupants
C35_Witness ==
    /\ last_op.op = "tick"
    /\ ~err /\ ~d_over
    /\ \A t \in {TAG_FALL, TAG_HOT, TAG_TOUCH} : \E id \in DOMAIN phys : t \in phys[id].tag

----------------------------------------------------------------------------
(* The anchor of a Garbage                                                 *)

\* the stored Garbage whose cells the index holds
IndexedGarbage ==
    {g \in Range(m_contents) : phys[g].kind = "Garbage" /\ CellsOf(m_content_map, g) # {}}

\* the rows and the columns of the cells that the index holds for an occupant
RowsOf(id) == {cell[1] : cell \in CellsOf(m_content_map, id)}
ColsOf(id) == {cell[2] : cell \in CellsOf(m_content_map, id)}

C36_Shrunk ==
    /\ ~err
    /\ last_op.op = "shrink"
    /\ last_op.id \in IndexedGarbage
    /\ phys[last_op.id].rows = 1
    /\ phys[last_op.id].columns = 2

----------------------------------------------------------------------------
(* What the renderer asserts of the occupants it draws                     *)

\* C37: after every completed tick every occupant in BREAK has a timer that
\* is not negative, and so has every Block that is chaining: a Block that
\* has rested past its timer is not chaining.
C37_RendererAsserts ==
    (last_op.op = "tick" /\ ~err)
    => \A id \in DOMAIN phys :
           /\ phys[id].state = "BREAK" => phys[id].time >= 0
           /\ (phys[id].kind = "Block" /\ phys[id].chaining) => phys[id].time >= 0

\* after a tick a chaining Block is in the last tick of its BREAK
C37_Witness ==
    /\ last_op.op = "tick"
    /\ ~err
    /\ \E id \in DOMAIN phys :
           /\ phys[id].kind = "Block" /\ phys[id].chaining
           /\ phys[id].state = "BREAK" /\ phys[id].time = 1

\* after a tick a Block that fell as a chaining block has landed and is no
\* longer chaining
C37_Landed ==
    /\ last_op.op = "tick"
    /\ ~err
    /\ scen = "garbage"
    /\ \E id \in DOMAIN phys :
           /\ phys[id].kind = "Block" /\ phys[id].state = "LAND"
           /\ phys[id].time = LAND_TIME /\ ~phys[id].chaining
           /\ phys[id].rc = <<-3, 0>>

----------------------------------------------------------------------------
(* Raise, recovery and scroll of the Pit                                    *)

\* Pit::set_raise: the player presses or releases the raise button
Pit_set_raise(p, raise) ==
    IF raise
    THEN [p EXCEPT !.m_want_raise = TRUE, !.m_raise = TRUE, !.m_recovery = 0]
    ELSE [p EXCEPT !.m_want_raise = FALSE]

\* Pit::stop_raise: the raise ends unless the button is still held
Pit_stop_raise(p) ==
    IF ~p.m_want_raise THEN [p EXCEPT !.m_raise = FALSE] ELSE p

\* Pit::replenish_recovery: a match refills the recovery countdown
Pit_replenish_recovery(p) ==
    IF ~p.m_raise THEN [p EXCEPT !.m_recovery = BREAK_TIME + RECOVERY_TIME]
    ELSE p

MaxRaiseTicks == 6      \* SpecRaise: the updates of one run

InitRaise ==
    /\ StartPit(NewPit)
    /\ DirStart
    /\ MbStart
    /\ scen = "raise"
    /\ screen = NoScreen
    /\ last_op = [op |-> "new"]
    /\ twin = NoTwin

SetRaise ==
    /\ ~err
    /\ \E raise \in BOOLEAN :
        /\ \E p \in {Pit_set_raise(PitState, raise)} : SetPit(p)
        /\ last_op' = [op |-> "set_raise", raise |-> raise]
    /\ UNCHANGED <<dirVars, mbVars, scen, screen, twin>>

StopRaise ==
    /\ ~err
    /\ \E p \in {Pit_stop_raise(PitState)} : SetPit(p)
    /\ last_op' = [op |-> "stop_raise"]
    /\ UNCHANGED <<dirVars, mbVars, scen, screen, twin>>

ReplenishRecovery ==
    /\ ~err
    /\ \E p \in {Pit_replenish_recovery(PitState)} : SetPit(p)
    /\ last_op' = [op |-> "replenish_recovery"]
    /\ UNCHANGED <<dirVars, mbVars, scen, screen, twin>>

\* Pit::update on a pit without occupants
RaiseUpdate ==
    /\ ~err
    /\ m_cursor.time < MaxRaiseTicks
    /\ \E p \in {Pit_update(PitState)} : SetPit(p)
    /\ last_op' = [op |-> "update", scroll |-> m_scroll, recovery |-> m_recovery]
    /\ UNCHANGED <<dirVars, mbVars, scen, screen, twin>>

NextRaise == SetRaise \/ StopRaise \/ ReplenishRecovery \/ RaiseUpdate

SpecRaise == InitRaise /\ [][NextRaise]_vars

\* C38: the scroll offset does not advance during a tick in which the
\* recovery countdown is positive; starting a raise sets the recovery
\* countdown to zero; replenish_recovery does not set the countdown while
\* the pit is raising.
C38_RecoveryHoldsScroll ==
    /\ last_op.op = "update" /\ last_op.recovery > 0 => m_scroll = last_op.scroll
    /\ last_op.op = "set_raise" /\ last_op.raise => m_recovery = 0
    /\ m_raise => m_recovery = 0

\* what Pit::update does with the scroll offset: it advances on every
\* update, by RAISE_SPEED while raising and by SCROLL_SPEED otherwise,
\* whatever the recovery countdown
C38_ScrollAlwaysAdvances ==
    /\ last_op.op = "update" =>
        m_scroll = last_op.scroll + (IF m_raise THEN RAISE_SPEED ELSE SCROLL_SPEED)
    /\ last_op.op = "set_raise" /\ last_op.raise => m_recovery = 0
    /\ m_raise => m_recovery = 0
    /\ m_recovery \in {0, BREAK_TIME + RECOVERY_TIME}

\* an update with the recovery countdown positive has advanced the scroll
C38_Witness ==
    /\ last_op.op = "update"
    /\ last_op.recovery = BREAK_TIME + RECOVERY_TIME
    /\ m_recovery = last_op.recovery
    /\ m_scroll = last_op.scroll + SCROLL_SPEED

----------------------------------------------------------------------------
(* Assigning one Pit to another                                             *)

\* what an index entry holds once its occupant has been destroyed
DANGLING == -1

\* Pit::assign_basic
Pit_assign_basic(lhs, rhs) ==
    [lhs EXCEPT !.m_cursor = rhs.m_cursor,
                !.m_want_raise = rhs.m_want_raise,
                !.m_raise = rhs.m_raise,
                !.m_scroll = rhs.m_scroll,
                !.m_peak = rhs.m_peak,
                !.m_chain = rhs.m_chain,
                !.m_recovery = rhs.m_recovery,
                !.m_panic = rhs.m_panic]

\* Pit::operator=: assign_basic, m_contents = rhs.copy_contents() (the clones
\* are made before the previous occupants are destroyed, so no clone takes
\* the place of a destroyed one), make_content_map.  Nothing clears
\* m_content_map.  Where assert is compiled in, make_content_map stops the
\* program on a leftover index; with NDEBUG it fills into the leftover index.
Pit_assign(lhs, rhs, ndebug) ==
    LET stale == [c \in DOMAIN lhs.m_content_map |-> DANGLING]
        based == [Pit_assign_basic(lhs, rhs) EXCEPT !.m_contents = rhs.m_contents,
                                                    !.phys = rhs.phys,
                                                    !.next_id = rhs.next_id,
                                                    !.m_content_map = stale]
    IN  IF ~ndebug /\ lhs.m_content_map # <<>>
        THEN [based EXCEPT !.err = TRUE]
        ELSE Pit_make_content_map(based)

MaxAssignOccupants == 2     \* SpecAssign: the occupants of either pit

\* the cells occupants are spawned at
AssignCells == {-1, 0} \X {0, 1}

\* the other Pit, carried as a simulation that is never run
Rhs(p) ==
    [present |-> TRUE, how |-> "rhs", calls0 |-> 0,
     sim |-> [p |-> p, calls |-> 0, d_bottom |-> 0, d_panic |-> FALSE,
              d_over |-> FALSE, ev |-> <<>>]]

InitAssign ==
    /\ StartPit(NewPit)
    /\ DirStart
    /\ MbStart
    /\ scen = "assign"
    /\ screen = NoScreen
    /\ last_op = [op |-> "new"]
    /\ twin = Rhs(NewPit)

\* both pits are still being built
Building == ~err /\ ~twin.sim.p.err /\ last_op.op \in {"new", "spawn"}

\* Pit::spawn_block on the pit that will be assigned to
SpawnTarget ==
    /\ Building
    /\ Len(m_contents) < MaxAssignOccupants
    /\ \E rc \in AssignCells :
        \E p \in {Pit_spawn_block(PitState, BLUE, rc, "REST")} : SetPit(p)
    /\ last_op' = [op |-> "spawn"]
    /\ UNCHANGED <<dirVars, mbVars, scen, screen, twin>>

\* Pit::spawn_block or Pit::spawn_garbage on the pit that will be assigned from
SpawnSource ==
    /\ Building
    /\ Len(twin.sim.p.m_contents) < MaxAssignOccupants
    /\ \E rc \in AssignCells :
        \/ twin' = Rhs(Pit_spawn_block(twin.sim.p, RED, rc, "REST"))
        \/ twin' = Rhs(Pit_spawn_garbage(twin.sim.p, rc, 2, 1, <<GREEN, GREEN>>))
    /\ last_op' = [op |-> "spawn"]
    /\ UNCHANGED <<pitVars, dirVars, mbVars, scen, screen>>

\* target = source
Assign ==
    /\ Building
    /\ \E ndebug \in BOOLEAN :
        /\ \E p \in {Pit_assign(PitState, twin.sim.p, ndebug)} : SetPit(p)
        /\ last_op' = [op |-> "assign", ndebug |-> ndebug,
                       was |-> DOMAIN m_content_map]
    /\ UNCHANGED <<dirVars, mbVars, scen, screen, twin>>

\* Pit target(source)
CopyConstruct ==
    /\ Building
    /\ \E p \in {Pit_copy(twin.sim.p)} : SetPit(p)
    /\ last_op' = [op |-> "construct"]
    /\ UNCHANGED <<dirVars, mbVars, scen, screen, twin>>

NextAssign == SpawnTarget \/ SpawnSource \/ Assign \/ CopyConstruct

SpecAssign == InitAssign /\ [][NextAssign]_vars

\* the index holds exactly the footprints of the occupants of the collection
IndexCoversContents ==
    /\ DOMAIN m_content_map = UNION {Footprint(phys[id]) : id \in DOMAIN phys}
    /\ \A id \in DOMAIN phys : \A c \in Footprint(phys[id]) : m_content_map[c] = id

\* C39: after target = source, also when the target held occupants, the
\* target's index covers exactly the footprints of the copied occupants and
\* has no entry of the previous contents, just as after copy construction.
C39_AssignRebuildsIndex ==
    last_op.op = "assign" =>
        /\ ~err
        /\ IndexCoversContents
        /\ PitState = Pit_copy(twin.sim.p)

\* what operator= leaves: onto a pit without occupants the same Pit as the
\* copy constructor's; onto a pit with occupants either the stopped program
\* or an index in which every previous cell is still entered.
C39_AssignKeepsOldIndex ==
    last_op.op = "assign" =>
        /\ m_contents = twin.sim.p.m_contents /\ phys = twin.sim.p.phys
        /\ last_op.was = {} => PitState = Pit_copy(twin.sim.p)
        /\ last_op.was # {} =>
            /\ last_op.was \subseteq DOMAIN m_content_map
            /\ ~last_op.ndebug => err
            /\ last_op.ndebug =>
                 (err <=> \E id \in DOMAIN phys : Footprint(phys[id]) \cap last_op.was # {})
            /\ \A c \in DOMAIN m_content_map :
                 m_content_map[c] = DANGLING <=> c \in last_op.was

\* an assignment onto a pit with occupants, no assert, left an entry of a
\* destroyed occupant beside the entries of the copied ones
C39_Witness ==
    /\ last_op.op = "assign"
    /\ last_op.ndebug
    /\ ~err
    /\ Len(m_contents) = 2
    /\ \E c \in DOMAIN m_content_map : m_content_map[c] = DANGLING
    /\ \E c \in DOMAIN m_content_map : m_content_map[c] \in DOMAIN phys

\* the assignment onto a pit without occupants agrees with the constructor
C39_OntoEmpty ==
    /\ last_op.op = "assign"
    /\ last_op.was = {}
    /\ Len(m_contents) = 2
    /\ IndexCoversContents

----------------------------------------------------------------------------
(* The phases of a game round                                               *)

INTRO_TIME == 20
MaxGameTime == 95       \* SpecRound: the updates of the play and result phases

\* GameScreen::reset: the round starts with the intro.  updates counts the
\* calls of GameScreen::update since.
GameScreen_reset ==
    [game_phase |-> "Intro", countdown |-> INTRO_TIME, winner |-> -1, m_game_time |-> 0,
     updates |-> 0]

\* GameIntro::update that hands over one update late
GameIntro_update_late(g) ==
    IF g.countdown = 0 THEN [g EXCEPT !.game_phase = "Play"]
    ELSE [g EXCEPT !.countdown = @ - 1]

\* GameIntro::update
GameIntro_update(g) ==
    IF g.countdown - 1 = 0
    THEN [g EXCEPT !.countdown = @ - 1, !.game_phase = "Play"]
    ELSE [g EXCEPT !.countdown = @ - 1]

\* GamePlay::update after both directors have been updated
GamePlay_decide(g, left_over, right_over) ==
    IF left_over \/ right_over
    THEN [g EXCEPT !.game_phase = "Result",
                   !.winner = IF left_over THEN 1 ELSE 0,
                   !.m_game_time = @ + 1]
    ELSE [g EXCEPT !.m_game_time = @ + 1]

\* GameResult::update
GameResult_update(g) == [g EXCEPT !.m_game_time = @ + 1]

\* one field's share of GamePlay::update, whatever its director reports
Field_update(sim) == IF sim.p.err THEN sim ELSE Sim_updated(sim, Pit_update(sim.p))

\* GameScreen::update ends with CursorDirector::move(Dir::NONE) on either field
Field_cursor(sim) == [sim EXCEPT !.p = CursorDirector_move(@, "NONE").p]

\* the round after GamePlay::update has updated the fields to left and right
GamePlay_updated(g, left, right) ==
    [screen |-> GamePlay_decide(g, left.d_over, right.d_over),
     left |-> Field_cursor(left), right |-> Field_cursor(right)]

\* GameScreen::update: update_impl runs the phase's update
GameScreen_update(g, left, right) ==
    CASE g.game_phase = "Intro" ->
            [screen |-> GameIntro_update(g),
             left |-> Field_cursor(left), right |-> Field_cursor(right)]
      [] g.game_phase = "Play" ->
            GamePlay_updated(g, Field_update(left), Field_update(right))
      [] OTHER ->
            [screen |-> GameResult_update(g),
             left |-> Field_cursor(left), right |-> Field_cursor(right)]

\* the scenarios either field of a round is set up from
RoundScenarios == {"panic", "chain"}

\* the right field, carried as the second simulation
RightField(name, sim) == [present |-> TRUE, how |-> name, calls0 |-> 0, sim |-> sim]

\* the left field becomes sim
SetLeft(sim) ==
    /\ SetPit(sim.p)
    /\ d_bottom' = sim.d_bottom
    /\ d_panic' = sim.d_panic
    /\ d_over' = sim.d_over
    /\ color_calls' = sim.calls
    /\ events' = sim.ev

InitRound ==
    /\ GameInit
    /\ scen \in RoundScenarios
    /\ \E name \in RoundScenarios : twin = RightField(name, NewSim(name))
    /\ screen = GameScreen_reset

\* GameScreen::update
ScreenUpdate ==
    /\ ~err
    /\ ~twin.sim.p.err
    /\ screen.m_game_time < MaxGameTime
    /\ \E w \in {GameScreen_update(screen, Sim, twin.sim)} :
        /\ SetLeft(w.left)
        /\ twin' = [twin EXCEPT !.sim = w.right]
        /\ screen' = [w.screen EXCEPT !.updates = @ + 1]
    /\ last_op' = [op |-> "update"]
    /\ UNCHANGED <<mbVars, scen>>

\* Button::RESET: GameScreen::reset sets up a new round
ScreenReset ==
    /\ screen.updates > 0
    /\ \E w \in {NewSim(scen)} : SetLeft(w)
    /\ twin' = RightField(twin.how, NewSim(twin.how))
    /\ screen' = GameScreen_reset
    /\ last_op' = [op |-> "reset"]
    /\ UNCHANGED <<mbVars, scen>>

NextRound == ScreenUpdate \/ ScreenReset

SpecRound == InitRound /\ [][NextRound]_vars

\* a step is a call of GameScreen::update made in the phase ph
UpdateIn(ph) == last_op'.op = "update" /\ screen.game_phase = ph

\* either field's director reports over()
LeftOver == d_over
RightOver == twin.sim.d_over

\* the phase changes only from Intro to Play and from Play to Result, or by
\* a reset
PhaseOrder ==
    screen'.game_phase # screen.game_phase =>
        \/ last_op'.op = "reset" /\ screen'.game_phase = "Intro"
        \/ last_op'.op = "update" /\
           <<screen.game_phase, screen'.game_phase>> \in
               {<<"Intro", "Play">>, <<"Play", "Result">>}

\* the intro ends with the INTRO_TIME-th update of the round and no other
IntroEnds ==
    UpdateIn("Intro") =>
        /\ screen'.game_phase = "Play" <=> screen'.updates = INTRO_TIME
        /\ UNCHANGED <<pitVars, dirVars, twin>>

\* play ends with the first update after which a director reports over();
\* the right player (1) wins whenever the left field is over
PlayEnds ==
    UpdateIn("Play") =>
        /\ ~LeftOver /\ ~RightOver
        /\ m_cursor.time' = m_cursor.time + 1
        /\ twin'.sim.p.m_cursor.time = twin.sim.p.m_cursor.time + 1
        /\ screen'.game_phase = "Result" <=> (LeftOver' \/ RightOver')
        /\ screen'.game_phase = "Result" =>
               screen'.winner = (IF LeftOver' THEN 1 ELSE 0)

\* in the result phase an update applies no tick to either field
ResultIdles ==
    UpdateIn("Result") =>
        /\ screen'.game_phase = "Result"
        /\ screen'.winner = screen.winner
        /\ UNCHANGED <<pitVars, dirVars, twin>>

\* C40: a round's phase advances only Intro -> Play -> Result; Intro changes
\* to Play on exactly its INTRO_TIME-th update; Play changes to Result in the
\* first update after which either director reports over(), the right player
\* winning whenever the left field is over, also when both are; once in
\* Result no simulation tick is applied to either field until the reset.
C40_PhasesAdvance ==
    /\ [](screen.game_phase \in {"Intro", "Play", "Result"})
    /\ [](screen.game_phase = "Intro" <=> screen.updates < INTRO_TIME)
    /\ [](screen.game_phase = "Result" <=> (LeftOver \/ RightOver))
    /\ [][PhaseOrder /\ IntroEnds /\ PlayEnds /\ ResultIdles]_vars

\* both fields went over in the same update, the right player has won and
\* the result phase has been updated since
C40_Witness ==
    /\ screen.game_phase = "Result"
    /\ LeftOver /\ RightOver
    /\ screen.winner = 1
    /\ screen.m_game_time = MaxGameTime
    /\ m_cursor.time < screen.m_game_time
    /\ m_cursor.time = twin.sim.p.m_cursor.time

\* only the right field went over: the left player has won
C40_LeftWins ==
    /\ screen.game_phase = "Result"
    /\ ~LeftOver /\ RightOver
    /\ screen.winner = 0

\* the first update of the play phase
C40_PlayBegun ==
    /\ screen.game_phase = "Play"
    /\ screen.updates = INTRO_TIME + 1
    /\ m_cursor.time = 1

====
